---- MODULE Spec2Model ----
(***************************************************************************)
(* Sequential agent orchestration of the Telegram bridge: the request      *)
(* queue and its single consumer (claude_worker), the idle heartbeat, the  *)
(* message-threading aggregator with its reminder timers, and the intake   *)
(* handlers, modelled from src/bot/src/handlers/message_handler.py,        *)
(* src/bot/src/handlers/commands.py and src/bot/src/main.py.               *)
(*                                                                         *)
(* Scheduling model.  Everything runs on one asyncio event loop.  A task   *)
(* is atomic between two awaits, so each action below is one such segment. *)
(* python-telegram-bot processes updates one at a time (the Application is *)
(* built without concurrent_updates), so a handler never interleaves with  *)
(* another handler; handlers do interleave with the worker task and with   *)
(* the reminder timers.                                                    *)
(*                                                                         *)
(* Texts are sequences of symbols; a thread marker is one symbol, so that  *)
(* str.startswith / str.endswith are a test of the first / last symbol.    *)
(* Time is discrete, one tick is ten seconds, and every wait counts the    *)
(* ticks it has lasted up to its own delay.                                *)
(*                                                                         *)
(* Further parts, each with a specification of its own: the stores of      *)
(* sessions and process rows (src/bot/src/database/manager.py), the        *)
(* supervisor resilient_main with detect_crash_loop, the progress stream   *)
(* of one invocation (times in tenths of a second), the delivery of an     *)
(* answer in chunks (the limit of 4096 characters, scaled: MESSAGE_LIMIT),  *)
(* /kill and /killall, with process ids as sequences of characters, the    *)
(* shutdown by cleanup(), and error_handler with categorize_error          *)
(* (src/bot/src/utils/error_handler.py), where an exception is its kind    *)
(* and the set of the words of its message, and /restart.                  *)
(***************************************************************************)
EXTENDS Integers, Sequences, FiniteSets, TLC

\* ------------------------------------------------------------------ bounds
\* WorkItems put on the queue in one behaviour of Spec
MaxItems == 2
\* accepted text messages in one behaviour of Spec
MaxWorkerArrivals == 2
\* accepted text messages in one behaviour of ThreadSpec
MaxArrivals == 3
\* crashes of main() in one behaviour of SupervisorSpec
MaxCrashes == 6
\* progress events of one agent invocation
MaxEvents == 10
\* characters of an answer
MaxResponseLen == 8
\* characters of a process id
MaxIdLen == 2
\* processes in the executor's table at the start of KillSpec
MaxProcesses == 3
\* /kill commands in one behaviour of KillSpec
MaxKills == 2
\* accepted text messages in one behaviour of ShutdownSpec
MaxShutdownArrivals == 1
\* runs of main() in one behaviour of RestartSpec
MaxRuns == 2
\* crashes of main() in one behaviour of RecordSpec
MaxLongCrashes == 11
\* words of an error message
MaxWords == 2
\* /killall commands in one behaviour of KillallSpec
MaxKillalls == 1
\* agent processes started in one behaviour of KillallSpec
MaxStarts == 1

\* ------------------------------------------------------- program constants
\* asyncio.sleep(20.0) of _thread_timer, in ticks of ten seconds
REMINDER_DELAY == 2
\* settings.heartbeat_interval_seconds in ticks: the setting at 20 s (default 300 s)
heartbeat_interval_seconds == 2
\* deque(maxlen=10): the capacity of the crash record
CRASH_TIMES_MAXLEN == 10
\* detect_crash_loop: this many crashes ...
CRASH_LOOP_COUNT == 5
\* ... within this many seconds
CRASH_LOOP_WINDOW == 60
\* time.sleep(2) before the restart, in seconds
RESTART_DELAY == 2
\* stream_callback: 1.0 second between two updates, in tenths of a second
THROTTLE_SECONDS == 10
\* the 4096 characters of one Telegram message, scaled to 3
MESSAGE_LIMIT == 3

Users == {1, 2}
WorkerIds == {1, 2}

THREAD_START_MARKERS == {"1/", "thread_emoji"}
THREAD_END_MARKERS == {"x/", "X/", "flag_emoji", "check_emoji", "heavy_check_emoji"}

\* The text messages users send.
Texts ==
    { <<"1/", "a">>, <<"1/", "b">>, <<"c">>, <<"d", "x/">>, <<"X/", "e">>, <<"1/", "x/">> }
\* The texts the worker-centred specification draws from.
WorkerTexts == { <<"c">>, <<"1/", "a">>, <<"d", "x/">> }

heartbeat_message == <<"heartbeat_message">>
wake_up_prompt == <<"wake_up_prompt">>
photo_notification == <<"photo_notification">>
audio_notification == <<"audio_notification">>
document_notification == <<"document_notification">>

None == [none |-> TRUE]

VARIABLES
    heartbeat_enabled, \* settings.heartbeat_enabled
    paused,            \* bot_state "paused" in the store
    app_state,         \* the Application: "init", "polling" or "stopped"
    shutdown_event,    \* _shutdown_event.is_set()
    claude_queue,      \* the asyncio.Queue of ClaudeRequest
    _last_request,     \* message_handler._last_request
    _thread_states,    \* user -> ThreadState or None
    reminder_sent,     \* ThreadState.reminder_sent, per ThreadState object
    timers,            \* the _thread_timer task of each ThreadState object
    _worker_task,      \* main._worker_task: a worker id, or 0 for None
    tasks,             \* the claude_worker tasks
    \* history variables
    next_id,           \* WorkItems put so far, plus one
    n_arrived,         \* accepted text messages so far
    taken,             \* the ids of the requests the worker got from the queue, in order
    last_started,      \* the request whose processing began last (line 188)
    since_real,        \* ticks since a request from the queue was last taken, up to the interval
    last_hb,           \* the last heartbeat: what held when it was synthesized
    task_done,         \* the calls of claude_queue.task_done() so far
    arrived,           \* per user, the accepted texts in arrival order
    enq_log,           \* per user, the prompts queued from the user's texts
    reminders,         \* per ThreadState object, the reminder nudges sent
    \* the stores
    user_session,      \* table sessions: user -> session_id, "" if there is no row
    user_data,         \* context.user_data.get('claude_session_id') per user, "" if unset
    processes,         \* table processes: process_id -> status
    last_session,      \* per user, the session id of the last invocation that was
                       \* stored, "" after /clear
    \* the supervisor (resilient_main)
    sup_pc,            \* where resilient_main is: "start", "running", "notify", "exit_0", "exit_1"
    _crash_times,      \* main._crash_times
    now,               \* time.time(), in seconds
    runs,              \* the calls of main() so far
    verdict,           \* what detect_crash_loop() returned last: {} before the first call
    \* one agent invocation and its stream_callback
    loop_time,         \* asyncio.get_event_loop().time(), in tenths of a second
    last_update_time,  \* the nonlocal of stream_callback
    thinking_msg,      \* "None", or "sent" once the progress message exists
    n_events,          \* the progress events so far
    n_displays,        \* the transport calls stream_callback has made
    last_display,      \* the time of the last of them (0: none yet)
    last_event,        \* the last progress event: its type, its time, whether it was displayed
    \* the delivery of one answer (lines 319-360)
    response,          \* response_obj.content
    deliver_pc,        \* "start", "sending", "done", or "failed": a transport call raised
    chunks,            \* the chunks still to send
    sent_texts,        \* the texts sent to the chat, in order
    \* the executor's processes and /kill
    active_processes,  \* the keys of claude_executor.active_processes
    handles,           \* the process behind each id: "running", "terminated", "killed", "exited"
    kill_pc,           \* kill_command: "idle", or "grace" in its sleep of two seconds
    kill_id,           \* the local process_id of the kill_command that sleeps
    kill_arg,          \* the argument of the last /kill
    terminate_calls,   \* the ids whose process the last /kill called terminate() on
    n_kills,           \* /kill commands of admins so far
    kill_reply,        \* what the last /kill of an admin replied, "none" before it has
    \* /killall
    killall_pc,        \* killall_command: "idle", or "sleep" in a grace period
    killall_todo,      \* the ids of the snapshot the loop has still to visit
    killall_id,        \* proc_id of the iteration that sleeps
    killed_count,      \* killed_count of the reply
    n_killalls,        \* /killall commands of admins so far
    n_started,         \* agent processes started since the start
    \* cleanup()
    cleanup_pc,        \* "none" before cleanup is called, then the step it is at:
                       \* "stop", "worker", "await", "processes", "wait", "tasks",
                       \* "database"; "done" when it has returned, "raised" when it raised
    cleanup_todo,      \* the processes of the snapshot the loop has still to visit
    cleanup_id,        \* process_id of the iteration that waits
    database_closed,   \* close_database() was called
    teardown,          \* the steps cleanup has carried out, in order
    \* one call of a handler wrapped by error_handler
    call,              \* the call: what the handler does, the update, the transport
    outcome,           \* how the call ended, what was sent
    \* history of the process
    signalled          \* SIGTERM or SIGINT was delivered since the handlers were installed

\* what the intake handlers write
intake_vars == << _thread_states, claude_queue, timers, reminder_sent, next_id, enq_log >>
\* what only handle_message writes
text_vars == << n_arrived, arrived >>
\* what the worker writes
worker_vars == << _last_request, tasks, taken, last_started, since_real, last_hb,
                 task_done >>
\* the run of the application
run_vars == << heartbeat_enabled, app_state, shutdown_event, _worker_task >>

\* what the stores hold
store_vars == << user_session, user_data, processes, last_session >>
bot_vars == << intake_vars, text_vars, worker_vars, run_vars, paused, reminders,
              store_vars >>
\* what resilient_main and detect_crash_loop work on
supervisor_vars == << sup_pc, _crash_times, now, runs, verdict >>
\* what stream_callback works on
stream_vars == << loop_time, last_update_time, thinking_msg, n_events, n_displays,
                 last_display, last_event >>
\* what the delivery of an answer works on
deliver_vars == << response, deliver_pc, chunks, sent_texts >>
\* what kill_command works on, the table of process rows aside
kill_vars == << active_processes, handles, kill_pc, kill_id, kill_arg, terminate_calls,
               n_kills, kill_reply >>
\* the parts of the groups above that /kill and /killall leave alone
handler_vars == << intake_vars, text_vars, worker_vars, run_vars, paused, reminders >>
session_vars == << user_session, user_data, last_session >>
kill_command_vars == << kill_pc, kill_id, kill_arg, terminate_calls, n_kills,
                       kill_reply >>
\* what killall_command works on, table and processes aside
killall_vars == << killall_pc, killall_todo, killall_id, killed_count, n_killalls,
                  n_started >>
\* what cleanup works on, besides the application, the tasks and the processes
cleanup_vars == << cleanup_pc, cleanup_todo, cleanup_id, database_closed, teardown >>
\* what the wrapper of error_handler works on
wrapper_vars == << call, outcome >>
\* what the delivery of a signal writes besides the event
signal_vars == << signalled >>
rest_vars == << killall_vars, cleanup_vars, wrapper_vars, signal_vars >>
\* everything past the handlers and the stores but the executor's processes
past_executor_vars == << supervisor_vars, stream_vars, deliver_vars, kill_command_vars,
                        rest_vars >>
outer_vars == << supervisor_vars, stream_vars, deliver_vars, kill_vars, rest_vars >>

vars == << bot_vars, outer_vars >>

ThreadIds == 1..MaxArrivals

\* ------------------------------------------------------------ pure helpers
Last(s) == s[Len(s)]

_is_thread_start(text) == \E marker \in THREAD_START_MARKERS : text[1] = marker

\* An end test that looks at the end of the text only.
_is_thread_end_suffix(text) == \E marker \in THREAD_END_MARKERS : Last(text) = marker

_is_thread_end(text) ==
    \E marker \in THREAD_END_MARKERS : text[1] = marker \/ Last(text) = marker

\* A join that puts the newest message first.
RECURSIVE JoinNewestFirst(_)
JoinNewestFirst(messages) ==
    IF Len(messages) = 0 THEN << >>
    ELSE IF Len(messages) = 1 THEN messages[1]
    ELSE JoinNewestFirst(Tail(messages)) \o <<"\n">> \o messages[1]

\* "\n".join(messages)
RECURSIVE JoinNL(_)
JoinNL(messages) ==
    IF Len(messages) = 0 THEN << >>
    ELSE IF Len(messages) = 1 THEN messages[1]
    ELSE messages[1] \o <<"\n">> \o JoinNL(Tail(messages))

ClaudeRequest(id, prompt, update, source) ==
    [id |-> id, prompt |-> prompt, update |-> update, source |-> source]

\* ThreadState(messages, update, context, timer_task, start_time, reminder_sent):
\* tid names the object, and with it its timer task and its reminder_sent flag.
ThreadState(messages, update, tid) ==
    [messages |-> messages, update |-> update, tid |-> tid]

NoTimer == [st |-> "unused", user |-> 0, slept |-> 0]

\* A claude_worker task: where it is suspended (pc), and its locals.
\* td counts the task_done() calls of the step the task is taking.
\* session_id and continue_session are the arguments of execute_command,
\* resp_session and content what it returned.
NoTask == [pc |-> "none", request |-> None, dequeued |-> FALSE, waited |-> 0,
           typing_task |-> "None", td |-> 0, session_id |-> "",
           continue_session |-> FALSE, resp_session |-> "", content |-> ""]
\* Task.done()
DonePcs == {"exited", "crashed", "cancelled"}
done(t) == t.pc \in DonePcs

\* process.returncode is None
alive(handle) == handle \in {"running", "terminated"}

\* The handlers and the worker before the application starts.
HandlersInit ==
    /\ heartbeat_enabled \in BOOLEAN
    /\ paused = FALSE
    /\ app_state = "init"
    /\ shutdown_event = FALSE
    /\ claude_queue = << >>
    /\ _last_request = None
    /\ _thread_states = [u \in Users |-> None]
    /\ reminder_sent = [tid \in ThreadIds |-> FALSE]
    /\ timers = [tid \in ThreadIds |-> NoTimer]
    /\ _worker_task = 0
    /\ tasks = [w \in WorkerIds |-> NoTask]
    /\ next_id = 1
    /\ n_arrived = 0
    /\ taken = << >>
    /\ last_started = None
    /\ since_real = 0
    /\ last_hb = None
    /\ task_done = 0
    /\ arrived = [u \in Users |-> << >>]
    /\ enq_log = [u \in Users |-> << >>]
    /\ reminders = [tid \in ThreadIds |-> 0]

\* A new database.
StoresInit ==
    /\ user_session = [u \in Users |-> ""]
    /\ user_data = [u \in Users |-> ""]
    /\ processes = << >>
    /\ last_session = [u \in Users |-> ""]

BotInit ==
    /\ HandlersInit
    /\ StoresInit

\* The process has started: no crash is recorded.
SupervisorInit ==
    /\ sup_pc = "start"
    /\ _crash_times = << >>
    /\ now = 0
    /\ runs = 0
    /\ verdict = {}

\* Lines 213-217, at a time when the event loop has run for a second.
StreamInit ==
    /\ loop_time = THROTTLE_SECONDS
    /\ last_update_time = 0
    /\ thinking_msg = "None"
    /\ n_events = 0
    /\ n_displays = 0
    /\ last_display = 0
    /\ last_event = [type |-> "none", at |-> 0, shown |-> FALSE]

\* No answer to deliver.
DeliverInit ==
    /\ response = << >>
    /\ deliver_pc = "done"
    /\ chunks = << >>
    /\ sent_texts = << >>

\* No agent process runs, no /kill was sent.
KillInit ==
    /\ active_processes = {}
    /\ handles = << >>
    /\ kill_pc = "idle"
    /\ kill_id = << >>
    /\ kill_arg = << >>
    /\ terminate_calls = {}
    /\ n_kills = 0
    /\ kill_reply = "none"

\* No /killall was sent.
KillallInit ==
    /\ killall_pc = "idle"
    /\ killall_todo = {}
    /\ killall_id = << >>
    /\ killed_count = 0
    /\ n_killalls = 0
    /\ n_started = 0

\* No handler is called.
NoCall == [does |-> "nothing", kind |-> "", text |-> {}, update |-> "", send_ok |-> TRUE]
NoOutcome == [status |-> "pending", value |-> "", category |-> "", sent |-> << >>]

WrapperInit ==
    /\ call = NoCall
    /\ outcome = NoOutcome

\* No signal was delivered.
SignalInit == signalled = FALSE

\* cleanup() has not been called.
CleanupInit ==
    /\ cleanup_pc = "none"
    /\ cleanup_todo = {}
    /\ cleanup_id = << >>
    /\ database_closed = FALSE
    /\ teardown = << >>

Init ==
    /\ BotInit
    /\ SupervisorInit
    /\ StreamInit
    /\ DeliverInit
    /\ KillInit
    /\ KillallInit
    /\ CleanupInit
    /\ WrapperInit
    /\ SignalInit

\* ------------------------------------------------------------------ intake
\* The state a handler works on: the thread table, the queue, the timer
\* tasks, the reminder flags, and the history of what was queued.
Intake ==
    [ts |-> _thread_states, q |-> claude_queue, tm |-> timers, rs |-> reminder_sent,
     id |-> next_id, log |-> enq_log]

\* await claude_queue.put(ClaudeRequest(...)): the queue is unbounded, so put
\* never blocks; the request goes to the tail.
put(S, prompt, update, source) ==
    [S EXCEPT !.q = Append(@, ClaudeRequest(S.id, prompt, update, source)),
              !.id = @ + 1]

\* A cancel that is never delivered.
cancel_timer_lost(tm, tid) == tm

\* Task.cancel() of a reminder timer: the task is suspended in its sleep, and
\* the CancelledError is what its next step sees.
cancel_timer(tm, tid) ==
    IF tm[tid].st = "sleeping" THEN [tm EXCEPT ![tid].st = "cancelled"] ELSE tm

_submit_thread(S, user_id) ==
    IF S.ts[user_id] = None THEN S
    ELSE LET thread == S.ts[user_id]
             combined_prompt == JoinNL(thread.messages)
             S1 == [S EXCEPT !.tm = cancel_timer(@, thread.tid)]
             S2 == put(S1, combined_prompt, thread.update, "user_text")
         IN  [S2 EXCEPT !.log[user_id] = Append(@, combined_prompt),
                        !.ts[user_id] = None]

\* A new thread whose buffer does not take the text that opened it.
start_thread_without_text(S, user_id, message_text, tid) ==
    [S EXCEPT !.tm[tid] = [st |-> "sleeping", user |-> user_id, slept |-> 0],
              !.rs[tid] = FALSE,
              !.ts[user_id] = ThreadState(<< >>, user_id, tid)]

\* timer_task = asyncio.create_task(_thread_timer(user_id)) and
\* _thread_states[user_id] = ThreadState(messages=[message_text], ...,
\* reminder_sent=False): a new ThreadState object tid with its own timer.
start_thread(S, user_id, message_text, tid) ==
    [S EXCEPT !.tm[tid] = [st |-> "sleeping", user |-> user_id, slept |-> 0],
              !.rs[tid] = FALSE,
              !.ts[user_id] = ThreadState(<<message_text>>, user_id, tid)]

\* handle_message after its security and pause checks (lines 452-516).
thread_message(S, user_id, message_text, tid) ==
    LET is_start == _is_thread_start(message_text)
        is_end == _is_thread_end(message_text)
    IN  IF S.ts[user_id] # None
        THEN LET S1 == [S EXCEPT !.ts[user_id].messages = Append(@, message_text),
                                 !.ts[user_id].update = user_id]
             IN  IF is_end THEN _submit_thread(S1, user_id)
                 ELSE IF is_start /\ Len(S1.ts[user_id].messages) > 1
                 THEN LET S2 == [S1 EXCEPT !.ts[user_id].messages =
                                              SubSeq(@, 1, Len(@) - 1)]
                      IN  start_thread(_submit_thread(S2, user_id), user_id,
                                       message_text, tid)
                 ELSE S1
        ELSE IF is_start THEN start_thread(S, user_id, message_text, tid)
        ELSE LET S1 == put(S, message_text, user_id, "user_text")
             IN  [S1 EXCEPT !.log[user_id] = Append(@, message_text)]

SetIntake(S) ==
    /\ _thread_states' = S.ts
    /\ claude_queue' = S.q
    /\ timers' = S.tm
    /\ reminder_sent' = S.rs
    /\ next_id' = S.id
    /\ enq_log' = S.log

\* allowed: security_validator.is_authorized(user_id) and check_rate_limit(user_id)
handle_message(user_id, message_text, allowed) ==
    /\ app_state = "polling"
    /\ IF ~allowed \/ paused
       THEN UNCHANGED vars
       ELSE /\ SetIntake(thread_message(Intake, user_id, message_text, n_arrived + 1))
            /\ n_arrived' = n_arrived + 1
            /\ arrived' = [arrived EXCEPT ![user_id] = Append(@,
                              [text |-> message_text,
                               idle |-> _thread_states[user_id] = None,
                               nq |-> Len(enq_log[user_id]),
                               tid |-> n_arrived + 1])]
            /\ UNCHANGED << worker_vars, run_vars, paused, reminders,
                            store_vars, outer_vars >>

\* handle_photo, handle_audio, handle_document: the security check, the pause
\* check, the download (downloaded = FALSE: it raised, and error_handler
\* replied), then the put of the notification.
handle_attachment(user_id, notification, source, allowed, downloaded) ==
    /\ app_state = "polling"
    /\ IF ~allowed \/ paused \/ ~downloaded
       THEN UNCHANGED vars
       ELSE /\ SetIntake(put(Intake, notification, user_id, source))
            /\ UNCHANGED << text_vars, worker_vars, run_vars, paused, reminders,
                            store_vars, outer_vars >>

handle_photo(user_id, allowed, downloaded) ==
    handle_attachment(user_id, photo_notification, "photo", allowed, downloaded)

handle_audio(user_id, allowed, downloaded) ==
    handle_attachment(user_id, audio_notification, "audio", allowed, downloaded)

handle_document(user_id, allowed, downloaded) ==
    handle_attachment(user_id, document_notification, "document", allowed, downloaded)

\* start_command: no pause check.
start_command(user_id, allowed) ==
    /\ app_state = "polling"
    /\ IF ~allowed
       THEN UNCHANGED vars
       ELSE /\ SetIntake(put(Intake, wake_up_prompt, user_id, "wake_up"))
            /\ UNCHANGED << text_vars, worker_vars, run_vars, paused, reminders,
                            store_vars, outer_vars >>

\* allowed: is_admin(user_id)
pause_command(allowed) ==
    /\ app_state = "polling"
    /\ paused' = (IF allowed THEN TRUE ELSE paused)
    /\ UNCHANGED << intake_vars, text_vars, worker_vars, run_vars, reminders,
                    store_vars, outer_vars >>

resume_command(allowed) ==
    /\ app_state = "polling"
    /\ paused' = (IF allowed THEN FALSE ELSE paused)
    /\ UNCHANGED << intake_vars, text_vars, worker_vars, run_vars, reminders,
                    store_vars, outer_vars >>

\* clear_command: the user's row of the sessions table and the session id in
\* context.user_data are deleted.
clear_command(user_id, allowed) ==
    /\ app_state = "polling"
    /\ IF ~allowed
       THEN UNCHANGED vars
       ELSE /\ user_session' = [user_session EXCEPT ![user_id] = ""]
            /\ user_data' = [user_data EXCEPT ![user_id] = ""]
            /\ last_session' = [last_session EXCEPT ![user_id] = ""]
            /\ UNCHANGED << intake_vars, text_vars, worker_vars, run_vars, paused,
                            reminders, processes, outer_vars >>

\* ------------------------------------------------------- reminder timer
\* _thread_timer once its sleep is over: thread is the ThreadState object the
\* task took from the table when it started.
_thread_timer(tid) ==
    /\ timers[tid].st = "sleeping"
    /\ timers[tid].slept >= REMINDER_DELAY
    /\ LET user_id == timers[tid].user
       IN  IF _thread_states[user_id] # None /\ ~reminder_sent[tid]
           THEN /\ reminder_sent' = [reminder_sent EXCEPT ![tid] = TRUE]
                /\ reminders' = [reminders EXCEPT ![tid] = @ + 1]
           ELSE UNCHANGED << reminder_sent, reminders >>
    /\ timers' = [timers EXCEPT ![tid].st = "done"]
    /\ UNCHANGED << _thread_states, claude_queue, next_id, enq_log, text_vars,
                    worker_vars, run_vars, paused, store_vars, outer_vars >>

\* Ten seconds pass: every sleep, every wait on the queue and the time since
\* the last request from the queue last one tick longer.
Tick ==
    /\ timers' = [tid \in ThreadIds |->
                    IF timers[tid].st = "sleeping" /\ timers[tid].slept < REMINDER_DELAY
                    THEN [timers[tid] EXCEPT !.slept = @ + 1] ELSE timers[tid]]
    /\ tasks' = [w \in WorkerIds |->
                    IF tasks[w].pc = "waiting" /\ tasks[w].waited < heartbeat_interval_seconds
                    THEN [tasks[w] EXCEPT !.waited = @ + 1] ELSE tasks[w]]
    /\ since_real' = IF since_real < heartbeat_interval_seconds
                     THEN since_real + 1 ELSE since_real
    /\ UNCHANGED << _thread_states, claude_queue, reminder_sent, next_id, enq_log,
                    text_vars, _last_request, taken, last_started, last_hb, task_done,
                    run_vars, paused, reminders, store_vars, outer_vars >>

\* ------------------------------------------------------------ worker task
\* A post_init that never sees a running worker.
WorkerNeverRunning == FALSE

\* post_init's check: _worker_task is not None and not _worker_task.done()
WorkerAlreadyRunning == _worker_task # 0 /\ ~done(tasks[_worker_task])

\* A slot for a new task object: one that holds no unfinished task.
FreeSlots == {w \in WorkerIds : tasks[w].pc = "none" \/ done(tasks[w])}

\* post_init: _worker_task = asyncio.create_task(claude_worker(_shutdown_event))
\* unless a worker is already running.
StartWorker ==
    IF WorkerAlreadyRunning \/ FreeSlots = {}
    THEN UNCHANGED << _worker_task, tasks >>
    ELSE LET w == CHOOSE x \in FreeSlots : \A y \in FreeSlots : x <= y
         IN  /\ _worker_task' = w
             /\ tasks' = [tasks EXCEPT ![w] = [NoTask EXCEPT !.pc = "top"]]

\* async_main, lines 188-197: initialize, start, post_init, start_polling.
async_main_start ==
    /\ app_state = "init"
    /\ app_state' = "polling"
    /\ StartWorker
    /\ UNCHANGED << intake_vars, text_vars, _last_request, taken, last_started,
                    since_real, last_hb, task_done, heartbeat_enabled, shutdown_event,
                    paused, reminders, store_vars, outer_vars >>

\* post_init called again while the application runs.
post_init ==
    /\ app_state = "polling"
    /\ StartWorker
    /\ UNCHANGED << intake_vars, text_vars, _last_request, taken, last_started,
                    since_real, last_hb, task_done, heartbeat_enabled, app_state,
                    shutdown_event, paused, reminders, store_vars, outer_vars >>

\* A loop that does not look at the shutdown event.
loop_top_unconditional(t) == [NoTask EXCEPT !.pc = "waiting", !.waited = 0, !.td = t.td]

\* A loop whose wait keeps the time the previous wait had already lasted.
loop_top_keeps_wait(t) ==
    IF shutdown_event
    THEN [NoTask EXCEPT !.pc = "exited", !.td = t.td]
    ELSE [NoTask EXCEPT !.pc = "waiting", !.waited = t.waited, !.td = t.td]

\* The head of the while loop (lines 151-166): leave on shutdown, otherwise
\* wait for the next request with the heartbeat interval as timeout.
loop_top(t) ==
    IF shutdown_event
    THEN [NoTask EXCEPT !.pc = "exited", !.td = t.td]
    ELSE [NoTask EXCEPT !.pc = "waiting", !.waited = 0, !.td = t.td]

\* A finally clause that marks the queue whatever the iteration worked on.
finally_unconditional(t) == [t EXCEPT !.td = @ + 1]

\* The finally clause (lines 398-401): task_done() if the iteration took its
\* request from the queue.
finally(t) == IF t.dequeued THEN [t EXCEPT !.td = @ + 1] ELSE t

\* The end of an iteration: the finally clause, then the head of the loop.
next_iteration(t) == loop_top(finally(t))

\* The finally clause, then the task ends with the exception that escaped.
escaped(t) == [finally(t) EXCEPT !.pc = "crashed"]

\* except Exception (lines 368-376): 'typing_task' is a local from line 214 on,
\* so typing_task.cancel() is always called; on None it raises AttributeError
\* inside the handler, which no except clause catches.
except_Exception(t) ==
    IF t.typing_task = "None" THEN escaped(t)
    ELSE IF t.typing_task = "live"
    THEN [t EXCEPT !.typing_task = "cancelled", !.pc = "err_typing_wait"]
    ELSE [t EXCEPT !.pc = "report"]

\* A lookup that asks context.user_data only.
resolve_session_cache_only(user_id) == user_data[user_id]

\* Lines 275-281: the session id of the store, or else the one remembered in
\* context.user_data.
resolve_session(user_id) ==
    IF user_session[user_id] # "" THEN user_session[user_id] ELSE user_data[user_id]

\* Lines 187-296: remember the request, look the session up (lookup_ok =
\* FALSE: db_manager.get_user_session raised), start the typing indicator and
\* call the executor.
begin_request(t, request, dequeued, lookup_ok) ==
    LET t1 == [t EXCEPT !.request = request, !.dequeued = dequeued,
                        !.typing_task = "None"]
        session_id == resolve_session(request.update)
    IN  IF lookup_ok
        THEN [t1 EXCEPT !.typing_task = "live", !.pc = "invoke",
                        !.session_id = session_id,
                        !.continue_session = (session_id # "")]
        ELSE except_Exception(t1)

\* A queue that hands out the newest request first.
get_newest(q) == [request |-> q[Len(q)], rest |-> SubSeq(q, 1, Len(q) - 1)]

\* claude_queue.get(): the request at the head, and the rest of the queue.
get(q) == [request |-> Head(q), rest |-> Tail(q)]

\* The id under which the executor keeps the process of an invocation of
\* worker task w.
invocation_id(w) == IF w = 1 THEN <<"a">> ELSE <<"b">>

\* The executor during a step of worker task w: it starts the agent process
\* and puts it into its table when the invocation begins, and takes it out
\* when the invocation returns or raises, the process having ended; an
\* invocation that is cancelled leaves its process where it is.
executor_follows(w) ==
    LET pid == invocation_id(w)
    IN  IF tasks[w].pc # "invoke" /\ tasks'[w].pc = "invoke"
        THEN /\ active_processes' = active_processes \cup {pid}
             /\ handles' = [other \in DOMAIN handles \cup {pid} |->
                               IF other = pid THEN "running" ELSE handles[other]]
        ELSE IF tasks[w].pc = "invoke" /\ tasks'[w].pc \notin {"invoke", "cancelled"}
        THEN /\ active_processes' = active_processes \ {pid}
             /\ handles' = [handles EXCEPT ![pid] = IF alive(@) THEN "exited" ELSE @]
        ELSE UNCHANGED << active_processes, handles >>

WorkerStep(w, t) ==
    /\ tasks' = [tasks EXCEPT ![w] = [t EXCEPT !.td = 0]]
    /\ task_done' = task_done + t.td
    /\ executor_follows(w)
    /\ UNCHANGED << intake_vars, text_vars, _last_request, taken, last_started,
                    since_real, last_hb, run_vars, paused, reminders,
                    store_vars, past_executor_vars >>

worker_top(w) ==
    /\ tasks[w].pc = "top"
    /\ WorkerStep(w, loop_top(tasks[w]))

\* claude_queue.get() returned a request.
worker_get(w, lookup_ok) ==
    /\ tasks[w].pc = "waiting"
    /\ claude_queue # << >>
    /\ LET got == get(claude_queue)
       IN  /\ claude_queue' = got.rest
           /\ _last_request' = got.request
           /\ last_started' = got.request
           /\ taken' = Append(taken, got.request.id)
           /\ LET t == begin_request(tasks[w], got.request, TRUE, lookup_ok)
              IN  /\ tasks' = [tasks EXCEPT ![w] = [t EXCEPT !.td = 0]]
                  /\ task_done' = task_done + t.td
    /\ since_real' = 0
    /\ executor_follows(w)
    /\ UNCHANGED << _thread_states, timers, reminder_sent, next_id, enq_log, text_vars,
                    last_hb, run_vars, paused, reminders, store_vars,
                    past_executor_vars >>

\* The timeout of asyncio.wait_for expires: no request was there to get.  The
\* worker task is only scheduled to resume; it runs in worker_timeout.
wait_timeout(w) ==
    /\ tasks[w].pc = "waiting"
    /\ claude_queue = << >>
    /\ tasks[w].waited >= heartbeat_interval_seconds
    /\ WorkerStep(w, [tasks[w] EXCEPT !.pc = "timed_out"])

\* A heartbeat test that does not read the setting.
heartbeat_due_unconfigured == _last_request # None

\* A heartbeat test that lets one heartbeat follow a request and no more.
heartbeat_due_once ==
    heartbeat_enabled /\ _last_request # None /\ _last_request.source # "heartbeat"

\* Line 174: settings.heartbeat_enabled and _last_request
heartbeat_due == heartbeat_enabled /\ _last_request # None

\* except asyncio.TimeoutError (lines 168-185).
worker_timeout(w, lookup_ok) ==
    /\ tasks[w].pc = "timed_out"
    /\ LET request == ClaudeRequest(0, heartbeat_message, _last_request.update,
                                    "heartbeat")
           t == IF shutdown_event
                THEN [NoTask EXCEPT !.pc = "exited", !.td = finally(tasks[w]).td]
                ELSE IF heartbeat_due
                THEN begin_request(tasks[w], request, FALSE, lookup_ok)
                ELSE next_iteration(tasks[w])
       IN  /\ tasks' = [tasks EXCEPT ![w] = [t EXCEPT !.td = 0]]
           /\ task_done' = task_done + t.td
           /\ IF ~shutdown_event /\ heartbeat_due
              THEN /\ _last_request' = request
                   /\ last_started' = request
                   /\ last_hb' = [request |-> request, before |-> last_started,
                                  qlen |-> Len(claude_queue), since_real |-> since_real]
              ELSE UNCHANGED << _last_request, last_started, last_hb >>
    /\ executor_follows(w)
    /\ UNCHANGED << intake_vars, text_vars, taken, since_real, run_vars, paused,
                    reminders, store_vars, past_executor_vars >>

\* claude_executor.execute_command returned (lines 298-303): the typing
\* indicator is cancelled and awaited.
\* It returned a response with the given session_id and content: the
\* response names no session, the session that was continued, or a session
\* that did not exist before.
agent_return(w, session_id, content) ==
    /\ tasks[w].pc = "invoke"
    /\ \/ session_id = ""
       \/ session_id = tasks[w].session_id
       \/ session_id \notin DOMAIN processes
    /\ WorkerStep(w, [tasks[w] EXCEPT !.typing_task = "cancelled", !.pc = "typing_wait",
                                      !.resp_session = session_id,
                                      !.content = content])

\* claude_executor.execute_command raised.
agent_raise(w) ==
    /\ tasks[w].pc = "invoke"
    /\ WorkerStep(w, except_Exception(tasks[w]))

\* How the store calls of lines 305-313 end.
StoreOutcomes == {"stored", "track_process raised", "set_user_session raised"}

\* db_manager.track_process: a new row with status "running"; process_id is
\* the primary key of the table, so a second row for it cannot be inserted
\* (the commit raises IntegrityError).
track_process(process_id) ==
    IF process_id \in DOMAIN processes
    THEN [ok |-> FALSE, table |-> processes]
    ELSE [ok |-> TRUE,
          table |-> [p \in DOMAIN processes \cup {process_id} |->
                        IF p = process_id THEN "running" ELSE processes[p]]]

\* Lines 305-317: track_process, then the session id is remembered in
\* context.user_data and in the store, all of it only if the response has a
\* session id; then the answer is sent.  stored tells how the store calls
\* end if nothing but the store itself is in their way.
worker_post(w, stored) ==
    /\ tasks[w].pc = "typing_wait"
    /\ LET t == tasks[w]
           user_id == t.request.update
           tracked == track_process(t.resp_session)
           failed == except_Exception(t)
       IN  IF t.resp_session = ""
           THEN /\ stored = "stored"
                /\ tasks' = [tasks EXCEPT ![w].pc = "deliver"]
                /\ UNCHANGED << task_done, store_vars >>
           ELSE IF stored = "track_process raised" \/ ~tracked.ok
           THEN /\ tasks' = [tasks EXCEPT ![w] = [failed EXCEPT !.td = 0]]
                /\ task_done' = task_done + failed.td
                /\ UNCHANGED store_vars
           ELSE IF stored = "set_user_session raised"
           THEN /\ tasks' = [tasks EXCEPT ![w] = [failed EXCEPT !.td = 0]]
                /\ task_done' = task_done + failed.td
                /\ processes' = tracked.table
                /\ user_data' = [user_data EXCEPT ![user_id] = t.resp_session]
                /\ UNCHANGED << user_session, last_session >>
           ELSE /\ tasks' = [tasks EXCEPT ![w].pc = "deliver"]
                /\ processes' = tracked.table
                /\ user_data' = [user_data EXCEPT ![user_id] = t.resp_session]
                /\ user_session' = [user_session EXCEPT ![user_id] = t.resp_session]
                /\ last_session' = [last_session EXCEPT ![user_id] = t.resp_session]
                /\ UNCHANGED task_done
    /\ UNCHANGED << intake_vars, text_vars, _last_request, taken, last_started,
                    since_real, last_hb, run_vars, paused, reminders, outer_vars >>

\* Lines 319-362: the progress message is deleted and the answer sent (sent =
\* FALSE: a transport call raised); then finally, and the loop goes on.
worker_deliver(w, sent) ==
    /\ tasks[w].pc = "deliver"
    /\ WorkerStep(w, IF sent THEN next_iteration(tasks[w])
                     ELSE except_Exception(tasks[w]))

\* Lines 371-387: the typing indicator has ended; categorize_error, and the
\* user message is sent.
worker_err_typing(w) ==
    /\ tasks[w].pc = "err_typing_wait"
    /\ WorkerStep(w, [tasks[w] EXCEPT !.pc = "report"])

\* Lines 382-395: the user message was sent, or the send raised and the plain
\* message is tried.
worker_report(w, sent) ==
    /\ tasks[w].pc = "report"
    /\ WorkerStep(w, IF sent THEN next_iteration(tasks[w])
                     ELSE [tasks[w] EXCEPT !.pc = "report2"])

\* Lines 391-401: the plain message was sent or not (bare except: pass).
worker_report2(w) ==
    /\ tasks[w].pc = "report2"
    /\ WorkerStep(w, next_iteration(tasks[w]))

\* ---------------------------------------------------------------- shutdown
signal_handler ==
    /\ app_state = "polling"
    /\ ~shutdown_event
    /\ shutdown_event' = TRUE
    /\ signalled' = TRUE
    /\ UNCHANGED << intake_vars, text_vars, worker_vars, heartbeat_enabled, app_state,
                    _worker_task, paused, reminders, store_vars, supervisor_vars,
                    stream_vars, deliver_vars, kill_vars, killall_vars, cleanup_vars,
                    wrapper_vars >>

\* The signal comes between two runs, while resilient_main handles a crash
\* or sleeps (main.py 302-323): the handlers main() installed (lines 264-265)
\* stay installed, and signal_handler sets the event of the run that is over.
signal_between_runs ==
    /\ sup_pc \in {"notify", "start"}
    /\ runs >= 1
    /\ ~signalled
    /\ signalled' = TRUE
    /\ shutdown_event' = TRUE
    /\ UNCHANGED << intake_vars, text_vars, worker_vars, heartbeat_enabled, app_state,
                    _worker_task, paused, reminders, store_vars, supervisor_vars,
                    stream_vars, deliver_vars, kill_vars, killall_vars, cleanup_vars,
                    wrapper_vars >>

\* async_main after _shutdown_event.wait() (lines 200-207) and cleanup's stop
\* of the updater and the application (lines 88-103).
stop_application ==
    /\ app_state = "polling"
    /\ shutdown_event
    /\ app_state' = "stopped"
    /\ UNCHANGED << intake_vars, text_vars, worker_vars, heartbeat_enabled,
                    shutdown_event, _worker_task, paused, reminders,
                    store_vars, outer_vars >>

\* Where a CancelledError thrown into the worker is swallowed: await
\* typing_task inside "except asyncio.CancelledError: pass" (lines 300-303,
\* 373-376), and the plain message inside the bare except (lines 391-397).
SwallowsCancel == {"typing_wait", "err_typing_wait", "report2"}

\* Task.cancel() of a worker task: the CancelledError is swallowed, or it
\* passes "except asyncio.CancelledError: raise" and the finally clause.
cancel(t) ==
    IF t.pc \in SwallowsCancel THEN t ELSE [finally(t) EXCEPT !.pc = "cancelled"]

\* cleanup, lines 105-110: _worker_task.cancel().
cleanup_cancel_worker ==
    /\ app_state = "stopped"
    /\ _worker_task # 0
    /\ ~done(tasks[_worker_task])
    /\ WorkerStep(_worker_task, cancel(tasks[_worker_task]))

\* -------------------------------------------------------------- supervisor
\* A window that still counts a crash exactly sixty seconds old.
detect_crash_loop_inclusive(crash_times, t_now) ==
    /\ Len(crash_times) >= CRASH_LOOP_COUNT
    /\ Cardinality({i \in DOMAIN crash_times : t_now - crash_times[i] <= CRASH_LOOP_WINDOW})
          >= CRASH_LOOP_COUNT

\* detect_crash_loop() with _crash_times = crash_times, called when
\* time.time() is t_now.
detect_crash_loop(crash_times, t_now) ==
    IF Len(crash_times) < CRASH_LOOP_COUNT THEN FALSE
    ELSE LET recent_crashes ==
                 {i \in DOMAIN crash_times : t_now - crash_times[i] < CRASH_LOOP_WINDOW}
         IN  Cardinality(recent_crashes) >= CRASH_LOOP_COUNT

\* An append to a record without capacity.
append_unbounded(crash_times, t) == Append(crash_times, t)

\* _crash_times.append(t) on a deque(maxlen=10): a full deque drops its oldest entry.
append(crash_times, t) ==
    IF Len(crash_times) = CRASH_TIMES_MAXLEN
    THEN Append(Tail(crash_times), t)
    ELSE Append(crash_times, t)

\* A supervisor that restarts whatever the crash record says.
after_crash_always_restart(loop) == "notify"

\* Lines 308-310: sys.exit(1) on a crash loop, otherwise on to the notification.
after_crash(loop) == IF loop THEN "exit_1" ELSE "notify"

\* The head of the while loop of resilient_main (lines 286-292): a new
\* _shutdown_event, and main() is called, which makes a new event loop and
\* runs async_main up to the building of a new Application (lines 259-268,
\* 150-162). The globals of message_handler (claude_queue, _last_request,
\* _thread_states, claude_executor) and main._worker_task are module
\* attributes that neither resilient_main nor main() assigns.
run_main ==
    /\ sup_pc = "start"
    /\ sup_pc' = "running"
    /\ runs' = runs + 1
    /\ shutdown_event' = FALSE
    /\ app_state' = "init"
    /\ cleanup_pc' = "none"
    /\ teardown' = << >>
    /\ database_closed' = FALSE
    /\ UNCHANGED << intake_vars, text_vars, worker_vars, heartbeat_enabled, _worker_task,
                    paused, reminders, store_vars, kill_vars, killall_vars, cleanup_todo,
                    cleanup_id, wrapper_vars, signal_vars, stream_vars, deliver_vars,
                    _crash_times,
                    now, verdict >>

\* main() returned, or a KeyboardInterrupt came out of it (lines 294-300):
\* the loop is left and the process exits with 0 (line 329).
main_returns(interrupted) ==
    /\ sup_pc = "running"
    /\ sup_pc' = "exit_0"
    /\ UNCHANGED << bot_vars, kill_vars, rest_vars, stream_vars, deliver_vars, _crash_times, now, runs, verdict >>

\* main() raised an Exception after running for `elapsed` seconds (lines
\* 302-310): the crash is recorded and the crash record examined.
main_raises(elapsed) ==
    /\ sup_pc = "running"
    /\ now' = now + elapsed
    /\ _crash_times' = append(_crash_times, now')
    /\ verdict' = {detect_crash_loop(_crash_times', now')}
    /\ sup_pc' = after_crash(detect_crash_loop(_crash_times', now'))
    /\ UNCHANGED << bot_vars, kill_vars, rest_vars, stream_vars, deliver_vars, runs >>

\* Lines 312-323: send_crash_notification in a loop of its own (notified =
\* FALSE: it failed, which is only logged), then time.sleep(2).
notify_and_sleep(notified) ==
    /\ sup_pc = "notify"
    /\ now' = now + RESTART_DELAY
    /\ sup_pc' = "start"
    /\ UNCHANGED << bot_vars, kill_vars, rest_vars, stream_vars, deliver_vars, _crash_times, runs, verdict >>

\* detect_crash_loop() applied to a crash record and a time of its own.
evaluate ==
    /\ verdict = {}
    /\ verdict' = {detect_crash_loop(_crash_times, now)}
    /\ UNCHANGED << bot_vars, kill_vars, rest_vars, stream_vars, deliver_vars, sup_pc, _crash_times, now, runs >>

\* --------------------------------------------------------- progress stream
\* The types of StreamUpdate that stream_callback tells apart.
StreamTypes == {"tool_use", "assistant", "tool_result", "result"}

\* A throttle that lets every update through.
throttled_never(current_time) == FALSE

\* Line 239: less than a second since the update time last noted.
throttled(current_time) == current_time - last_update_time < THROTTLE_SECONDS

\* Lines 244-257: the progress text of an update, "" if there is none.  (A
\* "result" update returns at line 257, which makes no display either.)
progress_text(type) ==
    IF type = "tool_use" THEN "tool" ELSE IF type = "assistant" THEN "working" ELSE ""

\* stream_callback, called `gap` tenths of a second after loop_time with an
\* update of the given type; sent = FALSE: the transport call raised, which
\* is logged only (lines 272-273).
stream_callback(type, gap, sent) ==
    LET current_time == loop_time + gap
        display == ~throttled(current_time) /\ progress_text(type) # ""
    IN  /\ loop_time' = current_time
        /\ n_events' = n_events + 1
        /\ last_update_time' = IF throttled(current_time) THEN last_update_time
                                ELSE current_time
        /\ thinking_msg' = IF display /\ thinking_msg = "None" /\ sent THEN "sent"
                            ELSE thinking_msg
        /\ n_displays' = IF display THEN n_displays + 1 ELSE n_displays
        /\ last_display' = IF display THEN current_time ELSE last_display
        /\ last_event' = [type |-> type, at |-> current_time, shown |-> display]
        /\ UNCHANGED << bot_vars, kill_vars, rest_vars, supervisor_vars, deliver_vars >>

\* ------------------------------------------------- delivery of the answer
no_response == <<"(no response)">>

\* A split that sends full chunks only.
split_full_chunks(text) ==
    [k \in 1..(Len(text) \div MESSAGE_LIMIT) |->
        SubSeq(text, (k - 1) * MESSAGE_LIMIT + 1, k * MESSAGE_LIMIT)]

\* Line 327: [response[i:i+4096] for i in range(0, len(response), 4096)]
split(text) ==
    [k \in 1..((Len(text) + MESSAGE_LIMIT - 1) \div MESSAGE_LIMIT) |->
        SubSeq(text, (k - 1) * MESSAGE_LIMIT + 1,
               IF k * MESSAGE_LIMIT < Len(text) THEN k * MESSAGE_LIMIT ELSE Len(text))]

\* Lines 320-327, 337-341, 354: what is to be sent is worked out and the
\* progress message, if there is one, deleted (deleted = FALSE: the delete
\* raised).
begin_delivery(deleted) ==
    /\ deliver_pc = "start"
    /\ IF response # << >> /\ thinking_msg = "sent" /\ ~deleted
       THEN /\ deliver_pc' = "failed"
            /\ UNCHANGED chunks
       ELSE /\ deliver_pc' = "sending"
            /\ chunks' = IF response = << >> THEN << no_response >>
                          ELSE IF Len(response) > MESSAGE_LIMIT THEN split(response)
                          ELSE << response >>
    /\ UNCHANGED << bot_vars, kill_vars, rest_vars, supervisor_vars, stream_vars, response, sent_texts >>

\* Lines 328-334, 342-353, 356-360: context.bot.send_message of the next
\* text (sent = FALSE: it raised).
send_message(sent) ==
    /\ deliver_pc = "sending"
    /\ IF ~sent
       THEN /\ deliver_pc' = "failed"
            /\ UNCHANGED << chunks, sent_texts >>
       ELSE /\ sent_texts' = Append(sent_texts, Head(chunks))
            /\ chunks' = Tail(chunks)
            /\ deliver_pc' = IF Tail(chunks) = << >> THEN "done" ELSE "sending"
    /\ UNCHANGED << bot_vars, kill_vars, rest_vars, supervisor_vars, stream_vars, response >>

\* ------------------------------------------------------------------ /kill
\* pid.startswith(process_id), ids and arguments being sequences of characters
startswith(pid, process_id) ==
    /\ Len(process_id) <= Len(pid)
    /\ SubSeq(pid, 1, Len(process_id)) = process_id

\* A lookup that goes by the prefix alone.
find_process_by_prefix(table, process_id) ==
    LET matching == {pid \in table : startswith(pid, process_id)}
    IN  IF Cardinality(matching) = 1 THEN matching ELSE {}

\* Lines 228-238: the id kill_command goes on with, as a set: the argument if
\* it is a key of the table, else the only key it is a prefix of if there is
\* exactly one; empty where the handler replies and returns.
find_process(table, process_id) ==
    IF process_id \in table THEN {process_id}
    ELSE LET matching == {pid \in table : startswith(pid, process_id)}
         IN  IF Cardinality(matching) = 1 THEN matching ELSE {}

\* db_manager.update_process_status: the row changes if there is one.
update_process_status(table, process_id, status) ==
    IF process_id \in DOMAIN table THEN [table EXCEPT ![process_id] = status] ELSE table

\* kill_command up to its sleep (lines 211-244). allowed: is_admin(user_id);
\* terminated = FALSE: process.terminate() raised, and the handler replied
\* "Failed to kill process".
kill_command(process_id, allowed, terminated) ==
    /\ kill_pc = "idle"
    /\ IF ~allowed
       THEN UNCHANGED vars
       ELSE /\ n_kills' = n_kills + 1
            /\ kill_arg' = process_id
            /\ LET found == find_process(active_processes, process_id)
               IN  IF found = {}
                   THEN /\ terminate_calls' = {}
                        /\ kill_reply' =
                              IF \E pid \in active_processes : startswith(pid, process_id)
                              THEN "Multiple processes match" ELSE "not found"
                        /\ UNCHANGED << handles, kill_pc, kill_id >>
                   ELSE LET pid == CHOOSE x \in found : TRUE
                        IN  /\ terminate_calls' = {pid}
                            /\ IF terminated
                               THEN /\ handles' = [handles EXCEPT ![pid] =
                                                     IF alive(@) THEN "terminated" ELSE @]
                                    /\ kill_pc' = "grace"
                                    /\ kill_id' = pid
                                    /\ kill_reply' = "none"
                               ELSE /\ kill_reply' = "Failed to kill process"
                                    /\ UNCHANGED << handles, kill_pc, kill_id >>
            /\ UNCHANGED << rest_vars, bot_vars, supervisor_vars, stream_vars, deliver_vars,
                            active_processes >>

\* kill_command after its sleep (lines 245-254): the kill of a process that
\* has not ended, the del of the key (a KeyError if the key is gone: the
\* handler replies "Failed to kill process"), the update of the row.
kill_command_after_sleep ==
    /\ kill_pc = "grace"
    /\ kill_pc' = "idle"
    /\ handles' = [handles EXCEPT ![kill_id] = IF alive(@) THEN "killed" ELSE @]
    /\ IF kill_id \in active_processes
       THEN /\ active_processes' = active_processes \ {kill_id}
            /\ processes' = update_process_status(processes, kill_id, "killed")
            /\ kill_reply' = "killed"
       ELSE /\ kill_reply' = "Failed to kill process"
            /\ UNCHANGED << active_processes, processes >>
    /\ UNCHANGED << rest_vars, intake_vars, text_vars, worker_vars, run_vars, paused, reminders,
                    user_session, user_data, last_session, supervisor_vars, stream_vars,
                    deliver_vars, kill_id, kill_arg, terminate_calls, n_kills >>

\* A process ends: its returncode is set.
process_exits(pid) ==
    /\ pid \in DOMAIN handles
    /\ alive(handles[pid])
    /\ handles' = [handles EXCEPT ![pid] = "exited"]
    /\ UNCHANGED << rest_vars, bot_vars, supervisor_vars, stream_vars, deliver_vars,
                    active_processes, kill_command_vars >>

\* The executor takes the process that has ended out of its table.
executor_removes(pid) ==
    /\ pid \in active_processes
    /\ ~alive(handles[pid])
    /\ active_processes' = active_processes \ {pid}
    /\ UNCHANGED << rest_vars, bot_vars, supervisor_vars, stream_vars, deliver_vars,
                    handles, kill_command_vars >>

\* --------------------------------------------------------------- /killall
\* The executor starts the agent process of the worker's next invocation; the
\* worker invokes the agent once the process of its last invocation has ended.
executor_starts(pid) ==
    /\ pid \notin DOMAIN handles
    /\ \A other \in DOMAIN handles : ~alive(handles[other])
    /\ active_processes' = active_processes \cup {pid}
    /\ handles' = [other \in DOMAIN handles \cup {pid} |->
                      IF other = pid THEN "running" ELSE handles[other]]
    /\ n_started' = n_started + 1
    /\ UNCHANGED << cleanup_vars, wrapper_vars, signal_vars, bot_vars, supervisor_vars, stream_vars, deliver_vars,
                    kill_command_vars, killall_pc, killall_todo, killall_id,
                    killed_count, n_killalls >>

\* The for loop of killall_command from the head of an iteration to the next
\* await (lines 274-277, 288-291), with todo the items of the snapshot not
\* yet visited and table the processes as they are: process.terminate()
\* raises for the items of raised, processes that have ended and whose
\* transport is closed, and the except clause logs it; then terminate() is
\* called on the next item and the handler sleeps, or no item is left and the
\* handler replies and returns.
killall_loop(todo, table, raised) ==
    LET rest == todo \ raised
    IN  IF rest = {}
        THEN /\ killall_pc' = "idle"
             /\ killall_todo' = {}
             /\ handles' = table
             /\ UNCHANGED killall_id
        ELSE \E pid \in rest :
                /\ killall_pc' = "sleep"
                /\ killall_todo' = rest
                /\ killall_id' = pid
                /\ handles' = [table EXCEPT ![pid] = IF alive(@) THEN "terminated" ELSE @]

\* The items of todo that terminate() can raise for.
Ended(todo, table) == {pid \in todo : ~alive(table[pid])}

\* killall_command up to its first sleep (lines 260-277). allowed:
\* is_admin(user_id). The snapshot list(active_processes.items()) is taken
\* before the first iteration.
killall_command(allowed) ==
    /\ killall_pc = "idle"
    /\ IF ~allowed
       THEN UNCHANGED vars
       ELSE /\ n_killalls' = n_killalls + 1
            /\ killed_count' = 0
            /\ \E raised \in SUBSET Ended(active_processes, handles) :
                  killall_loop(active_processes, handles, raised)
            /\ UNCHANGED << cleanup_vars, wrapper_vars, signal_vars, bot_vars, supervisor_vars, stream_vars, deliver_vars,
                            active_processes, kill_command_vars, n_started >>

\* killall_command from the end of a sleep to the next one or to its return
\* (lines 278-291): the kill of a process that has not ended, the del of the
\* key (a KeyError, logged, if the key is gone), the update of the row, the
\* count, and the loop.
killall_after_sleep ==
    /\ killall_pc = "sleep"
    /\ IF killall_id \in active_processes
       THEN /\ active_processes' = active_processes \ {killall_id}
            /\ processes' = update_process_status(processes, killall_id, "killed")
            /\ killed_count' = killed_count + 1
       ELSE UNCHANGED << active_processes, processes, killed_count >>
    /\ LET table == [handles EXCEPT ![killall_id] = IF alive(@) THEN "killed" ELSE @]
           todo == killall_todo \ {killall_id}
       IN  \E raised \in SUBSET Ended(todo, table) : killall_loop(todo, table, raised)
    /\ UNCHANGED << cleanup_vars, wrapper_vars, signal_vars, handler_vars, session_vars, supervisor_vars, stream_vars,
                    deliver_vars, kill_command_vars, n_killalls, n_started >>

\* ---------------------------------------------------------------- cleanup
\* what no step of main() and cleanup() writes
beside_cleanup_vars == << text_vars, paused, reminders, store_vars, supervisor_vars,
                         stream_vars, deliver_vars, kill_command_vars, killall_vars,
                         wrapper_vars, signal_vars >>

\* async_main raises during its start (lines 150-197), and main() goes on to
\* its finally clause. started = FALSE: before application.start() has
\* returned, the application is created and not running; started = TRUE:
\* start_polling raised, the application runs and post_init has been called.
async_main_raises(started) ==
    /\ app_state = "init"
    /\ cleanup_pc = "none"
    /\ IF started
       THEN app_state' = "running" /\ StartWorker
       ELSE app_state' = "created" /\ UNCHANGED << _worker_task, tasks >>
    /\ cleanup_pc' = "stop"
    /\ UNCHANGED << intake_vars, _last_request, taken, last_started, since_real,
                    last_hb, task_done, heartbeat_enabled, shutdown_event,
                    active_processes, handles, cleanup_todo, cleanup_id,
                    database_closed, teardown, beside_cleanup_vars >>

\* async_main returns after _shutdown_event.wait() (lines 200-207): the
\* updater is stopped, and main() goes on to its finally clause.
async_main_returns ==
    /\ app_state = "polling"
    /\ shutdown_event
    /\ cleanup_pc = "none"
    /\ app_state' = "running"
    /\ cleanup_pc' = "stop"
    /\ UNCHANGED << intake_vars, worker_vars, heartbeat_enabled, shutdown_event,
                    _worker_task, active_processes, handles, cleanup_todo, cleanup_id,
                    database_closed, teardown, beside_cleanup_vars >>

\* cleanup, lines 88-103: the event is set, the updater stopped if it runs;
\* Application.stop() raises RuntimeError for an application that is not
\* running, and stop() or shutdown() may fail on their own (raised): cleanup
\* has no except clause for either.
cleanup_stop(raised) ==
    /\ cleanup_pc = "stop"
    /\ shutdown_event' = TRUE
    /\ IF app_state = "created" \/ raised
       THEN /\ cleanup_pc' = "raised"
            /\ UNCHANGED << app_state, teardown >>
       ELSE /\ cleanup_pc' = "worker"
            /\ app_state' = "stopped"
            /\ teardown' = Append(teardown, "stop")
    /\ UNCHANGED << intake_vars, worker_vars, heartbeat_enabled, _worker_task,
                    active_processes, handles, cleanup_todo, cleanup_id,
                    database_closed, beside_cleanup_vars >>

\* cleanup, lines 105-110: the worker task, if it is not done, is cancelled
\* and awaited.
cleanup_cancel ==
    /\ cleanup_pc = "worker"
    /\ teardown' = Append(teardown, "worker")
    /\ IF _worker_task # 0 /\ ~done(tasks[_worker_task])
       THEN LET t == cancel(tasks[_worker_task])
            IN  /\ tasks' = [tasks EXCEPT ![_worker_task] = [t EXCEPT !.td = 0]]
                /\ task_done' = task_done + t.td
                /\ cleanup_pc' = "await"
       ELSE /\ cleanup_pc' = "processes"
            /\ UNCHANGED << tasks, task_done >>
    /\ UNCHANGED << intake_vars, _last_request, taken, last_started, since_real,
                    last_hb, run_vars, active_processes, handles, cleanup_todo,
                    cleanup_id, database_closed, beside_cleanup_vars >>

\* await _worker_task inside suppress(asyncio.CancelledError) returns when
\* the task is done; the exception of a task that has crashed is raised.
cleanup_await ==
    /\ cleanup_pc = "await"
    /\ done(tasks[_worker_task])
    /\ cleanup_pc' = IF tasks[_worker_task].pc = "crashed" THEN "raised" ELSE "processes"
    /\ UNCHANGED << intake_vars, worker_vars, run_vars, active_processes, handles,
                    cleanup_todo, cleanup_id, database_closed, teardown,
                    beside_cleanup_vars >>

\* The for loop of cleanup from the head of an iteration to the next await
\* (lines 115-121, 127-128): process.terminate() raises for the items of
\* raised, which the except clause logs; then terminate() is called on the
\* next item and cleanup waits for the process up to five seconds, or no
\* item is left.
cleanup_loop(todo, table, raised) ==
    LET rest == todo \ raised
    IN  IF rest = {}
        THEN /\ cleanup_pc' = "tasks"
             /\ cleanup_todo' = {}
             /\ handles' = table
             /\ UNCHANGED cleanup_id
        ELSE \E pid \in rest :
                /\ cleanup_pc' = "wait"
                /\ cleanup_todo' = rest
                /\ cleanup_id' = pid
                /\ handles' = [table EXCEPT ![pid] = IF alive(@) THEN "terminated" ELSE @]

\* cleanup, lines 112-121: the snapshot of the executor's table.
cleanup_processes ==
    /\ cleanup_pc = "processes"
    /\ teardown' = Append(teardown, "processes")
    /\ \E raised \in SUBSET Ended(active_processes, handles) :
          cleanup_loop(active_processes, handles, raised)
    /\ UNCHANGED << intake_vars, worker_vars, run_vars, active_processes,
                    database_closed, beside_cleanup_vars >>

\* cleanup, lines 122-128: after the wait the process is killed if it has not
\* ended, and awaited; no key is deleted from the executor's table.
cleanup_after_wait ==
    /\ cleanup_pc = "wait"
    /\ LET table == [handles EXCEPT ![cleanup_id] = IF alive(@) THEN "killed" ELSE @]
           todo == cleanup_todo \ {cleanup_id}
       IN  \E raised \in SUBSET Ended(todo, table) : cleanup_loop(todo, table, raised)
    /\ UNCHANGED << intake_vars, worker_vars, run_vars, active_processes,
                    database_closed, teardown, beside_cleanup_vars >>

\* cleanup, lines 130-137: every other task of the loop is cancelled and
\* awaited: the reminder timers and the typing indicators.
cleanup_tasks ==
    /\ cleanup_pc = "tasks"
    /\ cleanup_pc' = "database"
    /\ teardown' = Append(teardown, "tasks")
    /\ timers' = [tid \in ThreadIds |->
                    IF timers[tid].st = "sleeping"
                    THEN [timers[tid] EXCEPT !.st = "cancelled"] ELSE timers[tid]]
    /\ tasks' = [w \in WorkerIds |->
                   LET t == IF done(tasks[w]) \/ tasks[w].pc = "none" THEN tasks[w]
                            ELSE [finally(tasks[w]) EXCEPT !.pc = "cancelled", !.td = 0]
                   IN  IF t.typing_task = "live"
                       THEN [t EXCEPT !.typing_task = "cancelled"] ELSE t]
    /\ UNCHANGED << _thread_states, claude_queue, reminder_sent, next_id, enq_log,
                    _last_request, taken, last_started, since_real, last_hb, task_done,
                    run_vars, active_processes, handles, cleanup_todo, cleanup_id,
                    database_closed, beside_cleanup_vars >>

\* cleanup, lines 139-143.
cleanup_close_database ==
    /\ cleanup_pc = "database"
    /\ cleanup_pc' = "done"
    /\ database_closed' = TRUE
    /\ teardown' = Append(teardown, "database")
    /\ UNCHANGED << intake_vars, worker_vars, run_vars, active_processes, handles,
                    cleanup_todo, cleanup_id, beside_cleanup_vars >>

\* ---------------------------------------------------------- error_handler
\* The classes isinstance finds an exception of each kind to be an instance
\* of, among those categorize_error asks for. telegram.error: NetworkError
\* and RetryAfter derive from TelegramError, TimedOut from NetworkError. The
\* kind TimeoutError is asyncio.TimeoutError from Python 3.11 on, where it is
\* the builtin, a subclass of OSError; asyncio.TimeoutError is the one before.
classes(kind) ==
    CASE kind = "NetworkError" -> {"TelegramError", "NetworkError"}
      [] kind = "TimedOut" -> {"TelegramError", "NetworkError", "TimedOut"}
      [] kind = "RetryAfter" -> {"TelegramError", "RetryAfter"}
      [] kind = "TelegramError" -> {"TelegramError"}
      [] kind = "ConnectionError" -> {"OSError", "ConnectionError"}
      [] kind = "OSError" -> {"OSError"}
      [] kind = "TimeoutError" -> {"OSError", "asyncio.TimeoutError"}
      [] kind = "asyncio.TimeoutError" -> {"asyncio.TimeoutError"}
      [] kind = "PermissionError" -> {"OSError", "PermissionError"}
      [] kind = "FileNotFoundError" -> {"OSError", "FileNotFoundError"}
      [] kind \in {"ValueError", "KeyError", "IndexError", "TypeError", "MemoryError"}
            -> {kind}
      [] OTHER -> {}

isinstance(kind, classinfo) == classes(kind) \cap classinfo # {}

\* str.lower() of a word of an error message
lower(word) ==
    CASE word = "Connection" -> "connection"
      [] word = "Network" -> "network"
      [] word = "Claude" -> "claude"
      [] word = "API" -> "api"
      [] word = "Timeout" -> "timeout"
      [] word = "Rate" -> "rate"
      [] OTHER -> word

\* word in error_str, and word in error_str.lower(); an error message is the
\* set of the words in it.
contains(text, word) == word \in text
lower_contains(text, word) == \E other \in text : lower(other) = word

\* categorize_error (lines 27-102) for an exception of the given kind whose
\* str() has the words of text.
categorize_error(kind, text) ==
    IF /\ isinstance(kind, {"NetworkError", "ConnectionError", "OSError"})
       /\ (contains(text, "Connection") \/ contains(text, "Network"))
    THEN [category |-> "network", message |-> "Network connection issue"]
    ELSE IF isinstance(kind, {"TimedOut", "asyncio.TimeoutError"})
    THEN [category |-> "timeout", message |-> "Request timed out"]
    ELSE IF isinstance(kind, {"RetryAfter"})
    THEN [category |-> "rate_limit", message |-> "Rate limit reached"]
    ELSE IF /\ isinstance(kind, {"TelegramError"})
            /\ (lower_contains(text, "forbidden") \/ lower_contains(text, "unauthorized"))
    THEN [category |-> "permission", message |-> "Permission denied"]
    ELSE IF isinstance(kind, {"TelegramError"}) /\ lower_contains(text, "not found")
    THEN [category |-> "not_found", message |-> "Resource not found"]
    ELSE IF isinstance(kind, {"PermissionError"})
    THEN [category |-> "permission", message |-> "Access denied"]
    ELSE IF isinstance(kind, {"FileNotFoundError"})
    THEN [category |-> "not_found", message |-> "File not found"]
    ELSE IF isinstance(kind, {"OSError"})
    THEN [category |-> "generic", message |-> "File operation failed"]
    ELSE IF isinstance(kind, {"ValueError", "KeyError", "IndexError", "TypeError"})
    THEN [category |-> "invalid_input", message |-> "Invalid input or data format"]
    ELSE IF lower_contains(text, "claude") \/ lower_contains(text, "api")
    THEN IF lower_contains(text, "timeout")
         THEN [category |-> "timeout", message |-> "Claude is taking too long"]
         ELSE IF lower_contains(text, "rate") \/ lower_contains(text, "limit")
         THEN [category |-> "rate_limit", message |-> "Claude API limit reached"]
         ELSE [category |-> "claude_error", message |-> "Claude encountered an error"]
    ELSE IF isinstance(kind, {"MemoryError"})
    THEN [category |-> "generic", message |-> "Out of memory"]
    ELSE [category |-> "generic", message |-> "An error occurred"]

\* The kinds of exception that derive from Exception, and those that derive
\* from BaseException only.
ExceptionKinds ==
    {"NetworkError", "TimedOut", "RetryAfter", "TelegramError", "ConnectionError",
     "OSError", "TimeoutError", "asyncio.TimeoutError", "PermissionError",
     "FileNotFoundError", "ValueError", "KeyError", "IndexError", "TypeError",
     "MemoryError", "RuntimeError", "Exception"}
BaseExceptionKinds == {"CancelledError", "SystemExit", "KeyboardInterrupt"}

\* A wrapper whose except clauses let nothing but the cancellation through.
caught_but_cancel(kind) == kind # "CancelledError"

\* Lines 114-117: except asyncio.CancelledError: raise, except Exception.
caught(kind) == kind \in ExceptionKinds

\* wrapper (lines 111-151) for one call of the handler: the handler returns
\* a value or raises; an Exception is logged and categorized, the message
\* goes to update.message or to update.callback_query if the update has one
\* (a failure of the sending is logged), and None is returned.
wrapped(c) ==
    IF c.does = "returns"
    THEN [NoOutcome EXCEPT !.status = "returned", !.value = "Success"]
    ELSE IF ~caught(c.kind)
    THEN [NoOutcome EXCEPT !.status = "raised", !.value = c.kind]
    ELSE LET found == categorize_error(c.kind, c.text)
         IN  [status |-> "returned", value |-> "None",
              category |-> found.category,
              sent |-> IF c.update \in {"message", "callback_query"} /\ c.send_ok
                       THEN << found.message >> ELSE << >>]

\* One call of a wrapped handler.
wrapper ==
    /\ call.does # "nothing"
    /\ outcome.status = "pending"
    /\ outcome' = wrapped(call)
    /\ UNCHANGED << bot_vars, supervisor_vars, stream_vars, deliver_vars, kill_vars,
                    killall_vars, cleanup_vars, signal_vars, call >>

\* categorize_error called on its own, as the worker does (line 379).
categorize ==
    /\ call.does = "raises"
    /\ call.kind \in ExceptionKinds
    /\ outcome.status = "pending"
    /\ LET found == categorize_error(call.kind, call.text)
       IN  outcome' = [status |-> "categorized", value |-> found.message,
                       category |-> found.category, sent |-> << >>]
    /\ UNCHANGED << bot_vars, supervisor_vars, stream_vars, deliver_vars, kill_vars,
                    killall_vars, cleanup_vars, signal_vars, call >>

\* ------------------------------------------------------------------ restart
\* restart_command (commands.py 322-346), a wrapped handler, while main()
\* runs: a user who is no admin is told so and the handler returns; for an
\* admin the replies are sent and sys.exit(0) raises SystemExit. What the
\* wrapper lets through leaves the handler's task and the event loop, main()
\* (its finally runs cleanup; lines 267-276 catch KeyboardInterrupt only)
\* and resilient_main (lines 298-302: KeyboardInterrupt and Exception), and
\* the process exits with status 0.
restart_command(admin) ==
    /\ sup_pc = "running"
    /\ call = NoCall
    /\ call' = IF admin
               THEN [NoCall EXCEPT !.does = "raises", !.kind = "SystemExit",
                                   !.update = "message"]
               ELSE [NoCall EXCEPT !.does = "returns", !.update = "message"]
    /\ outcome' = wrapped(call')
    /\ sup_pc' = IF outcome'.status = "raised" THEN "exit_0" ELSE sup_pc
    /\ UNCHANGED << bot_vars, kill_vars, killall_vars, cleanup_vars, signal_vars,
                    stream_vars, deliver_vars, _crash_times, now, runs, verdict >>

\* ---------------------------------------------------------- specifications
\* response_obj.content: nothing, or an answer.
Contents == {"", "answer"}
\* response_obj.session_id: none, or the id of a session.
SessionIds == {"", "s1", "s2"}

\* The worker task with an agent whose responses carry a session id of
\* session_ids and a content of contents; oks = {TRUE}: no call to the store
\* fails for a reason of its own, and the transport sends every answer (the
\* sending of an error message may fail in any case).
WorkerWith(w, session_ids, contents, oks) ==
    \/ worker_top(w)
    \/ \E lookup_ok \in oks : worker_get(w, lookup_ok)
    \/ wait_timeout(w)
    \/ \E lookup_ok \in oks : worker_timeout(w, lookup_ok)
    \/ \E session_id \in session_ids, content \in contents :
          agent_return(w, session_id, content)
    \/ agent_raise(w)
    \/ \E stored \in StoreOutcomes :
          (stored = "stored" \/ FALSE \in oks) /\ worker_post(w, stored)
    \/ \E sent \in oks : worker_deliver(w, sent)
    \/ worker_err_typing(w)
    \/ \E sent \in BOOLEAN : worker_report(w, sent)
    \/ worker_report2(w)

\* The worker task with an agent that answers and returns no session id.
Worker(w) == WorkerWith(w, {""}, {"answer"}, BOOLEAN)

\* The worker with every producer, within the bounds.
Next ==
    \/ async_main_start
    \/ post_init
    \/ \E u \in Users, m \in WorkerTexts, allowed \in BOOLEAN :
          /\ next_id <= MaxItems /\ n_arrived < MaxWorkerArrivals
          /\ handle_message(u, m, allowed)
    \/ \E u \in Users, allowed, downloaded \in BOOLEAN :
          next_id <= MaxItems /\ handle_photo(u, allowed, downloaded)
    \/ \E u \in Users, allowed, downloaded \in BOOLEAN :
          next_id <= MaxItems /\ handle_audio(u, allowed, downloaded)
    \/ \E u \in Users, allowed, downloaded \in BOOLEAN :
          next_id <= MaxItems /\ handle_document(u, allowed, downloaded)
    \/ \E u \in Users, allowed \in BOOLEAN :
          next_id <= MaxItems /\ start_command(u, allowed)
    \/ \E tid \in ThreadIds : _thread_timer(tid)
    \/ \E w \in WorkerIds : Worker(w)
    \/ Tick

Spec == Init /\ [][Next]_vars

\* The aggregator on its own: the handlers of text messages, pause and resume,
\* and the reminder timers, with every text of Texts.
ThreadNext ==
    \/ async_main_start
    \/ \E u \in Users, m \in Texts, allowed \in BOOLEAN :
          n_arrived < MaxArrivals /\ handle_message(u, m, allowed)
    \/ \E allowed \in BOOLEAN : pause_command(allowed)
    \/ \E allowed \in BOOLEAN : resume_command(allowed)
    \/ \E tid \in ThreadIds : _thread_timer(tid)
    \/ Tick

ThreadSpec == Init /\ [][ThreadNext]_vars

\* The life of one run: start, one producer, the worker, and the shutdown.
LifecycleNext ==
    \/ async_main_start
    \/ \E u \in Users, allowed \in BOOLEAN :
          next_id <= MaxItems /\ start_command(u, allowed)
    \/ \E w \in WorkerIds : WorkerWith(w, {"", "s1"}, Contents, BOOLEAN)
    \/ Tick
    \/ signal_handler
    \/ stop_application
    \/ cleanup_cancel_worker

LifecycleSpec == Init /\ [][LifecycleNext]_vars

\* A run in which nothing is queued once the shutdown is requested: whatever
\* is in the queue then was queued before the request.
DrainNext ==
    \/ async_main_start
    \/ \E u \in Users, allowed \in BOOLEAN :
          next_id <= MaxItems /\ ~shutdown_event /\ start_command(u, allowed)
    \/ \E w \in WorkerIds : WorkerWith(w, {""}, {"answer"}, BOOLEAN)
    \/ Tick
    \/ signal_handler
    \/ stop_application
    \/ cleanup_cancel_worker

DrainSpec == Init /\ [][DrainNext]_vars

\* The sessions: one producer, /clear, the worker with an agent that returns
\* session ids, and the passing of time for the heartbeat.
SessionNext ==
    \/ async_main_start
    \/ \E u \in Users, allowed \in BOOLEAN :
          next_id <= MaxItems /\ start_command(u, allowed)
    \/ \E u \in Users, allowed \in BOOLEAN : clear_command(u, allowed)
    \/ \E w \in WorkerIds : WorkerWith(w, SessionIds, Contents, {TRUE})
    \/ Tick

\* The stores outlive the process: a user may have a session, tracked when it
\* was stored, from an earlier run; context.user_data starts empty.
SessionInit ==
    /\ HandlersInit
    /\ \E u0 \in Users \cup {0} :
          user_session = [u \in Users |-> IF u = u0 THEN "s0" ELSE ""]
    /\ user_data = [u \in Users |-> ""]
    /\ processes = [p \in {user_session[u] : u \in Users} \ {""} |-> "running"]
    /\ last_session = [u \in Users |-> ""]
    /\ SupervisorInit
    /\ StreamInit
    /\ DeliverInit
    /\ KillInit
    /\ KillallInit
    /\ CleanupInit
    /\ WrapperInit
    /\ SignalInit

SessionSpec == SessionInit /\ [][SessionNext]_vars

\* The intake under the pause flag: every producer of the queue, /pause and
\* /resume; no worker takes an item.
PauseNext ==
    \/ async_main_start
    \/ \E u \in Users, m \in WorkerTexts, allowed \in BOOLEAN :
          /\ next_id <= MaxItems /\ n_arrived < MaxWorkerArrivals
          /\ handle_message(u, m, allowed)
    \/ \E u \in Users, allowed, downloaded \in BOOLEAN :
          next_id <= MaxItems /\ handle_photo(u, allowed, downloaded)
    \/ \E u \in Users, allowed, downloaded \in BOOLEAN :
          next_id <= MaxItems /\ handle_audio(u, allowed, downloaded)
    \/ \E u \in Users, allowed, downloaded \in BOOLEAN :
          next_id <= MaxItems /\ handle_document(u, allowed, downloaded)
    \/ \E u \in Users, allowed \in BOOLEAN :
          next_id <= MaxItems /\ start_command(u, allowed)
    \/ \E allowed \in BOOLEAN : pause_command(allowed)
    \/ \E allowed \in BOOLEAN : resume_command(allowed)
    \/ \E tid \in ThreadIds : _thread_timer(tid)
    \/ Tick

PauseSpec == Init /\ [][PauseNext]_vars

\* How long main() runs before it raises, in seconds: with the two seconds
\* before the restart, crashes 2, 14, 15 or 62 seconds apart.
RunTimes == {0, 12, 13, 60}

\* The supervisor on its own; a run of main() is seen by how it ends.
SupervisorNext ==
    \/ run_main
    \/ \E interrupted \in BOOLEAN : main_returns(interrupted)
    \/ \E elapsed \in RunTimes : runs <= MaxCrashes /\ main_raises(elapsed)
    \/ \E notified \in BOOLEAN : notify_and_sleep(notified)
    \/ \E admin \in BOOLEAN : restart_command(admin)

\* resilient_main runs on: the notification has a timeout, the sleep ends.
SupervisorSpec ==
    /\ Init
    /\ [][SupervisorNext]_vars
    /\ WF_vars(run_main)
    /\ WF_vars(\E notified \in BOOLEAN : notify_and_sleep(notified))

\* The seconds main() runs before it fails in RecordSpec: crashes 15 or 62
\* seconds apart, so that no five of them lie within a minute.
LongRunTimes == {13, 60}

\* The supervisor over many runs: more crashes than the crash record holds.
RecordNext ==
    \/ run_main
    \/ \E interrupted \in BOOLEAN : main_returns(interrupted)
    \/ \E elapsed \in LongRunTimes : runs <= MaxLongCrashes /\ main_raises(elapsed)
    \/ \E notified \in BOOLEAN : notify_and_sleep(notified)
    \/ \E admin \in BOOLEAN : restart_command(admin)

RecordSpec == Init /\ [][RecordNext]_vars

\* The times the crash records of CrashLoopSpec are made of.
CrashTimes == {0, 1, 30, 59, 60, 61}
\* The times at which detect_crash_loop is called.
EvalTimes == CrashTimes \cup {90, 120, 121}
\* The longest crash record of CrashLoopSpec.
MaxRecord == 6

\* time.time() does not go back: a crash record is in ascending order.
CrashRecords ==
    {ct \in UNION {[1..n -> CrashTimes] : n \in 0..MaxRecord} :
        \A i \in DOMAIN ct : i = 1 \/ ct[i-1] <= ct[i]}

\* detect_crash_loop on any crash record, at any time from the last crash on.
CrashLoopInit ==
    /\ BotInit
    /\ StreamInit
    /\ DeliverInit
    /\ KillInit
    /\ KillallInit
    /\ CleanupInit
    /\ WrapperInit
    /\ SignalInit
    /\ sup_pc = "running"
    /\ runs = 1
    /\ verdict = {}
    /\ _crash_times \in CrashRecords
    /\ now \in EvalTimes
    /\ _crash_times # << >> => now >= Last(_crash_times)

CrashLoopSpec == CrashLoopInit /\ [][evaluate]_vars

\* How long after the previous one a progress event arrives, in tenths of a second.
EventGaps == {1, 9, 10}

\* One agent invocation: the progress events it streams.
StreamNext ==
    \E type \in StreamTypes, gap \in EventGaps, sent \in BOOLEAN :
        n_events < MaxEvents /\ stream_callback(type, gap, sent)

StreamSpec == Init /\ [][StreamNext]_vars

\* The characters answers are made of.
Characters == {"a", "b"}
\* The answers of the agent.
Responses == UNION {[1..n -> Characters] : n \in 0..MaxResponseLen}

\* An answer has come back, with or without a progress message in the chat.
DeliverStart ==
    /\ BotInit
    /\ SupervisorInit
    /\ loop_time = THROTTLE_SECONDS
    /\ last_update_time = 0
    /\ thinking_msg \in {"None", "sent"}
    /\ n_events = 0
    /\ n_displays = 0
    /\ last_display = 0
    /\ last_event = [type |-> "none", at |-> 0, shown |-> FALSE]
    /\ response \in Responses
    /\ deliver_pc = "start"
    /\ chunks = << >>
    /\ sent_texts = << >>
    /\ KillInit
    /\ KillallInit
    /\ CleanupInit
    /\ WrapperInit
    /\ SignalInit

DeliverNext ==
    \/ \E deleted \in BOOLEAN : begin_delivery(deleted)
    \/ \E sent \in BOOLEAN : send_message(sent)

DeliverSpec == DeliverStart /\ [][DeliverNext]_vars

\* The ids of agent processes, and the arguments of /kill.
ProcessIds == UNION {[1..n -> Characters] : n \in 1..MaxIdLen}

\* Any table of the executor of up to MaxProcesses keys, every process
\* running; the processes either all have their row in the table of process
\* rows, or none has.
KillStart ==
    /\ HandlersInit
    /\ user_session = [u \in Users |-> ""]
    /\ user_data = [u \in Users |-> ""]
    /\ last_session = [u \in Users |-> ""]
    /\ SupervisorInit
    /\ StreamInit
    /\ DeliverInit
    /\ active_processes \in {table \in SUBSET ProcessIds :
                                 Cardinality(table) <= MaxProcesses}
    /\ handles = [pid \in active_processes |-> "running"]
    /\ \E tracked \in BOOLEAN :
          processes = [pid \in (IF tracked THEN active_processes ELSE {}) |-> "running"]
    /\ kill_pc = "idle"
    /\ kill_id = << >>
    /\ kill_arg = << >>
    /\ terminate_calls = {}
    /\ n_kills = 0
    /\ kill_reply = "none"
    /\ KillallInit
    /\ CleanupInit
    /\ WrapperInit
    /\ SignalInit

\* /kill commands of admins and others, while processes end on their own.
KillNext ==
    \/ \E process_id \in ProcessIds, allowed, terminated \in BOOLEAN :
          n_kills < MaxKills /\ kill_command(process_id, allowed, terminated)
    \/ kill_command_after_sleep
    \/ \E pid \in ProcessIds : process_exits(pid)
    \/ \E pid \in ProcessIds : executor_removes(pid)

KillSpec == KillStart /\ [][KillNext]_vars

\* /killall commands, while processes end, are taken out of the table, and
\* the worker has the executor start the process of its next invocation.
KillallNext ==
    \/ \E allowed \in BOOLEAN : n_killalls < MaxKillalls /\ killall_command(allowed)
    \/ killall_after_sleep
    \/ \E pid \in ProcessIds : process_exits(pid)
    \/ \E pid \in ProcessIds : executor_removes(pid)
    \/ \E pid \in ProcessIds : n_started < MaxStarts /\ executor_starts(pid)

KillallSpec == KillStart /\ [][KillallNext]_vars

\* A run of main() from its start to the end of cleanup: one producer of
\* WorkItems, a user who opens a thread, the worker, a signal or a failed
\* start, and the processes ending.
ShutdownNext ==
    \/ async_main_start
    \/ \E started \in BOOLEAN : async_main_raises(started)
    \/ \E u \in Users, allowed \in BOOLEAN :
          next_id <= MaxItems /\ start_command(u, allowed)
    \/ \E u \in Users :
          n_arrived < MaxShutdownArrivals /\ handle_message(u, <<"1/", "a">>, TRUE)
    \/ \E tid \in ThreadIds : _thread_timer(tid)
    \/ \E w \in WorkerIds : WorkerWith(w, {""}, {"answer"}, BOOLEAN)
    \/ Tick
    \/ signal_handler
    \/ async_main_returns
    \/ \E raised \in BOOLEAN : cleanup_stop(raised)
    \/ cleanup_cancel
    \/ cleanup_await
    \/ cleanup_processes
    \/ cleanup_after_wait
    \/ cleanup_tasks
    \/ cleanup_close_database
    \/ \E pid \in ProcessIds : process_exits(pid)

ShutdownSpec == Init /\ [][ShutdownNext]_vars

\* The supervisor with the runs it starts: in a run a user sends /start and
\* opens a thread and the worker works; a signal ends the run, and a cleanup
\* that raises makes it a crash, after which resilient_main starts the next.
\* A run may also fail before the application is started (async_main_raises
\* with started = FALSE), and a signal may come between two runs.
RestartNext ==
    \/ runs < MaxRuns /\ run_main
    \/ /\ sup_pc = "running"
       /\ \/ async_main_start
          \/ next_id <= MaxItems /\ start_command(1, TRUE)
          \/ n_arrived < MaxShutdownArrivals /\ handle_message(1, <<"1/", "a">>, TRUE)
          \/ \E w \in WorkerIds : WorkerWith(w, {""}, {"answer"}, {TRUE})
          \/ Tick
          \/ signal_handler
          \/ async_main_returns
          \/ async_main_raises(FALSE)
          \/ \E raised \in BOOLEAN : cleanup_stop(raised)
          \/ cleanup_cancel
          \/ cleanup_await
          \/ cleanup_processes
          \/ cleanup_after_wait
          \/ cleanup_tasks
          \/ cleanup_close_database
          \/ \E pid \in ProcessIds : process_exits(pid)
    \/ cleanup_pc = "done" /\ main_returns(FALSE)
    \/ \E elapsed \in RunTimes : cleanup_pc = "raised" /\ main_raises(elapsed)
    \/ \E notified \in BOOLEAN : notify_and_sleep(notified)
    \/ signal_between_runs

RestartSpec == Init /\ [][RestartNext]_vars

\* The words error messages are made of.
Words ==
    {"Connection", "connection", "Network", "Claude", "claude", "API", "api", "Timeout",
     "timeout", "rate", "limit", "forbidden", "not found", "refused"}
\* The error messages: up to MaxWords words.
ErrorTexts == {text \in SUBSET Words : Cardinality(text) <= MaxWords}

\* The updates: with a message, with a callback query, with neither (an
\* edited message, say).
UpdateShapes == {"message", "callback_query", "other"}

\* Any call of a wrapped handler.
Calls ==
    [does : {"returns"}, kind : {""}, text : {{}}, update : UpdateShapes,
     send_ok : BOOLEAN]
      \cup [does : {"raises"}, kind : ExceptionKinds, text : ErrorTexts,
             update : UpdateShapes, send_ok : BOOLEAN]
      \cup [does : {"raises"}, kind : BaseExceptionKinds, text : {{}},
             update : UpdateShapes, send_ok : BOOLEAN]

ErrorStart ==
    /\ BotInit
    /\ SupervisorInit
    /\ StreamInit
    /\ DeliverInit
    /\ KillInit
    /\ KillallInit
    /\ CleanupInit
    /\ call \in Calls
    /\ outcome = NoOutcome
    /\ SignalInit

ErrorNext == wrapper \/ categorize

ErrorSpec == ErrorStart /\ [][ErrorNext]_vars

\* ------------------------------------------------------------- properties
\* The ids of the requests in a queue, in order.
Ids(q) == [i \in DOMAIN q |-> q[i].id]

\* The worker tasks that exist and have not ended.
LiveWorkers == {w \in WorkerIds : tasks[w].pc # "none" /\ ~done(tasks[w])}

\* Where a worker is between the session lookup for a request and the end of
\* its answer delivery or error reporting.
InProgress == {"invoke", "typing_wait", "deliver", "err_typing_wait", "report", "report2"}

\* C1: whatever producers put them (text, thread flush, attachment notice,
\* /start), the worker takes the requests in the order in which they were
\* put: requests are numbered as they are put, and the requests taken so far
\* followed by those still queued are 1, 2, 3, ... in order.
C1_FifoOrder ==
    /\ taken \o Ids(claude_queue) = [i \in 1..(next_id - 1) |-> i]
    /\ \A i \in DOMAIN taken : taken[i] = i

\* Two requests were taken in turn, the second one a thread flush put after an
\* attachment notice or a wake-up.
C1_Witness ==
    /\ taken = <<1, 2>>
    /\ last_started # None
    /\ last_started.id = 2
    /\ last_started.prompt = <<"1/", "a", "\n", "d", "x/">>

\* C2: single flight.  At most one worker is anywhere between the session
\* lookup for a request (from the queue or a heartbeat) and the end of that
\* request's delivery or error report, so at most one agent invocation is in
\* progress, and at most one worker task is alive to begin the next one.
C2_SingleFlight ==
    /\ Cardinality({w \in WorkerIds : tasks[w].pc \in InProgress}) <= 1
    /\ Cardinality(LiveWorkers) <= 1

\* An invocation is in progress while the next request waits in the queue and
\* post_init has a slot to start another worker in.
C2_Witness ==
    /\ \E w \in WorkerIds : tasks[w].pc = "invoke" /\ tasks[w].request.id = 1
    /\ claude_queue # << >>
    /\ FreeSlots # {}

\* C3: no failure while a request is processed ends the worker: a worker task
\* never ends with an exception.
C3_WorkerSurvives == \A w \in WorkerIds : tasks[w].pc # "crashed"

\* C4: every queued request is taken in the end; for that, while no shutdown
\* is requested, a queued request always has a live worker to take it.
C4_QueuedIsServed ==
    (claude_queue # << >> /\ ~shutdown_event) => LiveWorkers # {}

\* The texts i..j of what arrived from a user, one per line.
RECURSIVE Lines(_, _, _)
Lines(a, i, j) ==
    IF j < i THEN << >>
    ELSE IF i = j THEN a[i].text
    ELSE Lines(a, i, j - 1) \o <<"\n">> \o a[j].text

\* A text that begins with a start marker.
StartMarked(text) == text[1] \in THREAD_START_MARKERS
\* A text that begins or ends with an end marker.
EndMarked(text) ==
    text[1] \in THREAD_END_MARKERS \/ text[Len(text)] \in THREAD_END_MARKERS
NoMarker(text) == ~StartMarked(text) /\ ~EndMarked(text)

\* The prompts queued from the user's texts once text j was handled.
QueuedAfter(u, j) ==
    IF j < Len(arrived[u]) THEN arrived[u][j + 1].nq ELSE Len(enq_log[u])

\* The user's thread is closed once text j was handled.
IdleAfter(u, j) ==
    IF j < Len(arrived[u]) THEN arrived[u][j + 1].idle ELSE _thread_states[u] = None

\* C5: thread aggregation.  For a user in Idle, a start-marked text i, then
\* texts without marker, then an end-marked text j (marker as prefix or
\* suffix) give exactly one WorkItem, whose prompt is the texts i..j joined by
\* newlines; nothing is queued for them before j; after j the user has no
\* ThreadState and the thread's timer no longer sleeps.
C5_ThreadAggregation ==
    \A u \in Users : \A i, j \in DOMAIN arrived[u] :
        LET a == arrived[u]
        IN  (/\ i < j
             /\ a[i].idle /\ StartMarked(a[i].text)
             /\ \A k \in (i + 1)..(j - 1) : NoMarker(a[k].text))
            => /\ \A k \in (i + 1)..j : a[k].nq = a[i].nq /\ ~a[k].idle
               /\ EndMarked(a[j].text)
                  => /\ QueuedAfter(u, j) = a[i].nq + 1
                     /\ enq_log[u][a[i].nq + 1] = Lines(a, i, j)
                     /\ IdleAfter(u, j)
                     /\ timers[a[i].tid].st \in {"cancelled", "done"}

\* A thread of three texts was flushed by a text that begins with an end marker.
C5_Witness ==
    \E u \in Users :
        /\ Len(arrived[u]) = 3
        /\ arrived[u][1].idle
        /\ arrived[u][3].text = <<"X/", "e">>
        /\ enq_log[u] = << <<"1/", "a", "\n", "c", "\n", "X/", "e">> >>
        /\ _thread_states[u] = None

\* Text i began the thread that is open when text j arrives.
BeganThread(a, i, j) ==
    /\ i < j
    /\ StartMarked(a[i].text)
    /\ a[i].idle \/ ~EndMarked(a[i].text)
    /\ \A k \in (i + 1)..(j - 1) : NoMarker(a[k].text)

\* C6: thread restart.  When a user who is Collecting sends text j with a
\* start marker and no end marker, exactly one WorkItem is queued, whose
\* prompt is the texts buffered before j joined by newlines; the user is then
\* Collecting a buffer of text j alone, in a new ThreadState whose own timer
\* sleeps and whose reminder-sent flag is false until that timer expires.
C6_ThreadRestart ==
    \A u \in Users : \A j \in DOMAIN arrived[u] :
        LET a == arrived[u]
        IN  (~a[j].idle /\ StartMarked(a[j].text) /\ ~EndMarked(a[j].text))
            => /\ QueuedAfter(u, j) = a[j].nq + 1
               /\ \A i \in 1..(j - 1) :
                     BeganThread(a, i, j)
                     => /\ enq_log[u][a[j].nq + 1] = Lines(a, i, j - 1)
                        /\ a[i].tid # a[j].tid
               /\ \E i \in 1..(j - 1) : BeganThread(a, i, j)
               /\ ~IdleAfter(u, j)
               /\ j = Len(a)
                  => /\ _thread_states[u].messages = << a[j].text >>
                     /\ _thread_states[u].tid = a[j].tid
                     /\ timers[a[j].tid].user = u
                     /\ timers[a[j].tid].st \in {"sleeping", "done"}
                     /\ timers[a[j].tid].st = "sleeping" => ~reminder_sent[a[j].tid]

\* A thread of two texts was restarted before it was ended.
C6_Witness ==
    \E u \in Users :
        /\ Len(arrived[u]) = 3
        /\ arrived[u][3].text = <<"1/", "b">>
        /\ enq_log[u] = << <<"1/", "a", "\n", "c">> >>
        /\ _thread_states[u] # None
        /\ _thread_states[u].messages = << <<"1/", "b">> >>

\* The thread of ThreadState object tid is open.
ThreadOpen(tid) ==
    /\ timers[tid].user \in Users
    /\ _thread_states[timers[tid].user] # None
    /\ _thread_states[timers[tid].user].tid = tid

C7_AtMostOnce == \A tid \in ThreadIds : reminders[tid] <= 1

C7_Step ==
    /\ \A tid \in ThreadIds :
          \* a nudge is sent when the timer of an open thread has expired
          /\ reminders'[tid] # reminders[tid]
             => /\ ThreadOpen(tid)
                /\ timers[tid].slept >= REMINDER_DELAY
                /\ timers[tid].st = "sleeping" /\ timers'[tid].st = "done"
          \* the expiry leaves the queue and the threads alone
          /\ (timers[tid].st = "sleeping" /\ timers'[tid].st = "done")
             => /\ claude_queue' = claude_queue
                /\ _thread_states' = _thread_states
    /\ \A u \in Users :
          \* a thread is closed or replaced by a text with a marker only
          (_thread_states[u] # None
           /\ (_thread_states'[u] = None \/ _thread_states'[u].tid # _thread_states[u].tid))
          => /\ Len(arrived'[u]) = Len(arrived[u]) + 1
             /\ ~NoMarker(Last(arrived'[u]).text)

\* C7: for every thread the reminder nudge is sent at most once, and only
\* when the timer of the still open thread has expired; the expiry of a timer
\* queues nothing and leaves every ThreadState in place, and a thread stays
\* open until a text with an end marker or a start marker arrives.
C7_ReminderOnce == []C7_AtMostOnce /\ [][C7_Step]_vars

\* A thread was nudged and went on collecting.
C7_Witness ==
    \E tid \in ThreadIds :
        /\ reminders[tid] = 1
        /\ ThreadOpen(tid)
        /\ Len(_thread_states[timers[tid].user].messages) >= 2

\* C8: heartbeat suppression.  When a heartbeat is synthesized, at least the
\* heartbeat interval has passed since a request was last taken from the queue.
C8_HeartbeatSuppression ==
    last_hb # None => last_hb.since_real >= heartbeat_interval_seconds

\* A heartbeat followed the processing of a request from the queue.
C8_Witness ==
    /\ last_hb # None
    /\ last_hb.before.source # "heartbeat"
    /\ last_hb.since_real >= heartbeat_interval_seconds

\* What a worker does when it resumes after the timeout of its wait.
C9_Step ==
    \A w \in WorkerIds :
        (tasks[w].pc = "timed_out" /\ tasks'[w] # tasks[w] /\ ~shutdown_event)
        => IF heartbeat_enabled /\ taken # << >>
           THEN /\ tasks'[w].request # None
                /\ tasks'[w].request.source = "heartbeat"
                /\ tasks'[w].request.prompt = heartbeat_message
                /\ tasks'[w].request.update = last_started.update
                /\ tasks'[w].pc \in {"invoke", "crashed"}
           ELSE /\ tasks'[w].pc = "waiting"
                /\ tasks'[w].request = None
                /\ _last_request' = _last_request

\* C9: on the timeout of the worker's wait a heartbeat is synthesized if and
\* only if heartbeats are enabled and a request was taken from the queue
\* before; it goes to the conversation of the request processed last;
\* otherwise nothing is invoked and the worker waits again.
C9_HeartbeatIff == [][C9_Step]_vars

\* After two requests were processed, a heartbeat went to the second user.
C9_Witness ==
    /\ last_hb # None
    /\ Len(taken) = 2
    /\ last_hb.request.update = 2
    /\ last_hb.before.id = 2

\* C10: a heartbeat is never processed ahead of a request that was already
\* queued when the heartbeat was synthesized.
C10_HeartbeatBehindQueue == last_hb # None => last_hb.qlen = 0
\* The workers that are working on a request they got from the queue.
HoldingQueued ==
    {w \in WorkerIds : tasks[w].pc \in InProgress /\ tasks[w].request.source # "heartbeat"}

\* C11: task_done was called once for every request that was got from the
\* queue and is no longer being worked on, however its processing ended, and
\* for nothing else: not for a timeout, not for a heartbeat.  So the calls
\* never exceed the requests got from the queue.
C11_TaskDoneOncePerItem ==
    /\ task_done = Len(taken) - Cardinality(HoldingQueued)
    /\ task_done <= Len(taken)

\* Two requests were got and marked done, the second one cancelled while the
\* agent ran, and a heartbeat was processed in between.
C11_Witness ==
    /\ task_done = 2
    /\ Len(taken) = 2
    /\ last_hb # None
    /\ \E w \in WorkerIds : /\ tasks[w].pc = "cancelled"
                             /\ tasks[w].request # None
                             /\ tasks[w].request.source = "wake_up"

\* The recorded crashes that lie in the sixty seconds up to time t.
InWindow(crash_times, t) ==
    {i \in DOMAIN crash_times : t - 60 < crash_times[i] /\ crash_times[i] <= t}

\* C12: detect_crash_loop reports a loop exactly if at least 5 recorded
\* crashes lie in the 60 seconds up to the time of the call.  So 5 crashes
\* less than 60 seconds apart, examined at the last of them, are a loop; 5
\* crashes spanning 61 seconds or more are not; fewer than 5 never are.
C12_CrashLoopPredicate ==
    verdict # {} =>
        /\ verdict = {Cardinality(InWindow(_crash_times, now)) >= 5}
        /\ ( /\ Len(_crash_times) = 5
             /\ _crash_times[5] - _crash_times[1] < 60
             /\ now = _crash_times[5] ) => verdict = {TRUE}
        /\ (Len(_crash_times) = 5 /\ _crash_times[5] - _crash_times[1] >= 61)
              => verdict = {FALSE}
        /\ Len(_crash_times) < 5 => verdict = {FALSE}

\* Five crashes 59 seconds apart from first to last were found to be a loop.
C12_Witness ==
    /\ verdict = {TRUE}
    /\ Len(_crash_times) = 5
    /\ _crash_times[5] - _crash_times[1] = 59

\* The crash-loop predicate on the crash record as it stands.
CrashLoop == Cardinality(InWindow(_crash_times, now)) >= 5

\* A step of the supervisor: a failure that comes out of main() adds one
\* timestamp, the time of the crash, to the crash record and leads to exit 1
\* if the crash record then holds a loop and to the notification otherwise;
\* after the notification and at least two seconds main() is started again;
\* after exit 1 nothing is started.
C13_Step ==
    /\ (sup_pc = "running" /\ sup_pc' \notin {"running", "exit_0"}) =>
          /\ Len(_crash_times) < 10 =>
                /\ Len(_crash_times') = Len(_crash_times) + 1
                /\ SubSeq(_crash_times', 1, Len(_crash_times)) = _crash_times
          /\ Last(_crash_times') = now'
          /\ sup_pc' = IF CrashLoop' THEN "exit_1" ELSE "notify"
          /\ runs' = runs
    /\ (sup_pc = "notify" /\ sup_pc' # "notify") =>
          /\ sup_pc' = "start"
          /\ now' >= now + 2
          /\ _crash_times' = _crash_times /\ runs' = runs
    /\ (sup_pc = "start" /\ sup_pc' # "start") =>
          /\ sup_pc' = "running"
          /\ runs' = runs + 1
          /\ _crash_times' = _crash_times
    /\ sup_pc = "exit_1" => (sup_pc' = "exit_1" /\ runs' = runs)
    /\ runs' # runs => sup_pc = "start"

\* C13: after a failure of main() the supervisor records one timestamp;
\* then it restarts main(), after the notification and the pause, exactly if
\* the crash record holds no crash loop, and otherwise exits with failure
\* and starts nothing more.
C13_SupervisorRestart ==
    /\ [][C13_Step]_vars
    /\ (sup_pc = "notify") ~> (sup_pc = "running")

\* The supervisor restarted main() after each of five crashes, the first one
\* more than a minute before the others, and gave up at the sixth.
C13_Witness ==
    /\ sup_pc = "exit_1"
    /\ runs = 6
    /\ Len(_crash_times) = 6
    /\ _crash_times[2] - _crash_times[1] >= 60

\* C14: two progress updates that stream_callback hands to the transport in
\* one invocation are at least one second apart, so that however the events
\* arrive there is at most one update for each second begun; of ten events
\* 100 ms apart only the first is displayed.
C14_Step ==
    (n_displays' > n_displays /\ n_displays > 0) => loop_time' - last_display >= 10

C14_Throttle ==
    /\ [](n_displays <= 1 + (loop_time - 10) \div 10)
    /\ [][C14_Step]_vars

\* Ten events came 100 ms apart and one update was displayed.
C14_Witness ==
    /\ n_events = 10
    /\ loop_time = 20
    /\ n_displays = 1

\* C15: a progress event that has something to display (tool_use,
\* assistant) is dropped only if an update was displayed less than a second
\* before it: events that display nothing do not close the window.
C15_ReopenedWindowDisplays ==
    (last_event.type \in {"tool_use", "assistant"} /\ ~last_event.shown)
        => (n_displays > 0 /\ last_event.at - last_display < 10)

\* The texts of a sequence of messages, one after the other.
RECURSIVE Concat(_)
Concat(msgs) == IF msgs = << >> THEN << >> ELSE Head(msgs) \o Concat(Tail(msgs))

\* C16: an answer longer than one message is sent as messages of at most
\* the message limit each, in order, that put together are the answer; an
\* answer that fits is sent as one message.  While the messages are being sent
\* they are the beginning of the answer.
C16_Chunking ==
    response # << >> =>
        /\ \A i \in DOMAIN sent_texts : Len(sent_texts[i]) \in 1..MESSAGE_LIMIT
        /\ Len(Concat(sent_texts)) <= Len(response)
        /\ Concat(sent_texts) = SubSeq(response, 1, Len(Concat(sent_texts)))
        /\ deliver_pc = "done" =>
              /\ Concat(sent_texts) = response
              /\ Len(response) <= MESSAGE_LIMIT => sent_texts = << response >>

\* An answer of eight characters was sent as three messages.
C16_Witness ==
    /\ deliver_pc = "done"
    /\ Len(response) = 8
    /\ Len(sent_texts) = 3
    /\ sent_texts[1] # sent_texts[2]

\* The agent has returned an answer and the iteration is not over.
HasAnswer(t) ==
    t.pc \in {"typing_wait", "deliver", "err_typing_wait", "report", "report2"}
        /\ t.content # ""

\* An iteration in which the agent returned an answer ends by the delivery
\* of the answer.
C17_Step ==
    \A w \in WorkerIds :
        (HasAnswer(tasks[w]) /\ ~HasAnswer(tasks'[w])) => tasks[w].pc = "deliver"

\* C17: while no call to the store fails for a reason of its own and the
\* transport sends every answer, an answer the agent returned is sent to the
\* chat before the worker goes on to the next request.
C17_AnswerDelivered == [][C17_Step]_vars

\* The session id the lookup of lines 275-281 has to find for a user.
SessionOf(u) == IF user_session[u] # "" THEN user_session[u] ELSE user_data[u]

\* A step of the worker: storing the response of an invocation for a user
\* makes its session id the stored session of the user; an invocation that
\* starts is given the session id last stored for the user (if none was
\* cleared since), with the continue flag set, and in any case the session id
\* of the store or else of the cache, with the continue flag set exactly if
\* there is one.
C18_Step ==
    \A w \in WorkerIds :
        /\ ( /\ tasks[w].pc = "typing_wait" /\ tasks'[w].pc = "deliver"
             /\ tasks[w].resp_session # "" )
              => user_session'[tasks[w].request.update] = tasks[w].resp_session
        /\ (tasks[w].pc # "invoke" /\ tasks'[w].pc = "invoke") =>
              LET u == tasks'[w].request.update
              IN  /\ last_session[u] # "" =>
                        /\ tasks'[w].session_id = last_session[u]
                        /\ tasks'[w].continue_session
                  /\ tasks'[w].session_id = SessionOf(u)
                  /\ tasks'[w].continue_session <=> (SessionOf(u) # "")
                  /\ ~tasks'[w].continue_session <=>
                        (user_session[u] = "" /\ user_data[u] = "")

C19_PausedIntakeRejected ==
    [][paused => /\ next_id' = next_id
                 /\ Len(claude_queue') <= Len(claude_queue)]_vars

\* What does pass the pause flag: nothing but the wake-up prompt of /start.
PausedIntakeOnlyWakeUp ==
    [][paused => \/ claude_queue' = claude_queue
                 \/ /\ Len(claude_queue') = Len(claude_queue) + 1
                    /\ SubSeq(claude_queue', 1, Len(claude_queue)) = claude_queue
                    /\ Last(claude_queue').source = "wake_up"]_vars

\* ---------------------------------------------------------------- /kill
\* a is a prefix of pid, character by character
IsPrefixOf(a, pid) == Len(a) <= Len(pid) /\ \A i \in 1..Len(a) : pid[i] = a[i]

\* C20: a /kill of an admin with argument A calls terminate() on exactly one
\* process, the one tracked under A if A is a tracked id (even if A is also a
\* prefix of other ids), else the only tracked one whose id starts with A;
\* if A is no tracked id and several tracked ids start with A, or none does,
\* no process is terminated, and the tracking table, the processes and the
\* process rows stay as they are. What the command does after its sleep
\* touches the process, the key and the row of that one id only.
C20_Step ==
    /\ n_kills' = n_kills + 1 =>
          LET A == kill_arg'
              prefixed == {pid \in active_processes : IsPrefixOf(A, pid)}
          IN  /\ A \in active_processes => terminate_calls' = {A}
              /\ A \notin active_processes /\ Cardinality(prefixed) = 1 =>
                    terminate_calls' = prefixed
              /\ A \notin active_processes /\ Cardinality(prefixed) # 1 =>
                    /\ terminate_calls' = {}
                    /\ kill_pc' = "idle"
                    /\ UNCHANGED << active_processes, handles, processes >>
              /\ \A pid \in DOMAIN handles :
                    handles'[pid] # handles[pid] => pid \in terminate_calls'
              /\ UNCHANGED << active_processes, processes >>
    /\ kill_pc = "grace" /\ kill_pc' = "idle" =>
          /\ terminate_calls = {kill_id}
          /\ \A pid \in DOMAIN handles : handles'[pid] # handles[pid] => pid = kill_id
          /\ active_processes' = active_processes \ {kill_id}
          /\ DOMAIN processes' = DOMAIN processes
          /\ \A pid \in DOMAIN processes :
                processes'[pid] # processes[pid] => pid = kill_id

C20_KillByIdOrPrefix == [][C20_Step]_vars

\* A /kill with a proper prefix of one id has killed that process and set its
\* row; a second /kill has found no process, or several, for its argument.
C20_Witness ==
    /\ n_kills >= 2
    /\ kill_pc = "idle"
    /\ kill_id # << >>
    /\ kill_id \notin active_processes
    /\ handles[kill_id] = "killed"
    /\ kill_id \in DOMAIN processes /\ processes[kill_id] = "killed"
    /\ terminate_calls = {}
    /\ \E pid \in active_processes : IsPrefixOf(kill_arg, pid)

\* -------------------------------------------------------------- /killall
\* C21: when killall_command returns, no agent process is alive and the
\* table of the executor holds no process that runs, whatever the worker and
\* the executor do during its grace periods.
C21_Step ==
    killall_pc' = "idle" /\ (killall_pc # "idle" \/ n_killalls' # n_killalls)
        => \A pid \in DOMAIN handles' : ~alive(handles'[pid])

C21_NoneAliveAfterKillall == [][C21_Step]_vars

\* What holds: if no process was started since killall_command began, none
\* is alive when it returns.
KillallOfSnapshot == [][n_started' = 0 => C21_Step]_vars

\* ------------------------------------------------------------ idempotence
\* C22: a /kill of an admin that finds a process that has ended already (its
\* invocation completed, or it was killed) is a no-op that succeeds: it
\* changes neither the table of the executor nor a process nor a process
\* row, it has nothing left to do after a sleep, and it does not reply with
\* an error.
C22_Step ==
    n_kills' = n_kills + 1 =>
        \A pid \in active_processes :
            /\ pid = kill_arg' \/ (kill_arg' \notin active_processes /\
                    \A other \in active_processes :
                        IsPrefixOf(kill_arg', other) <=> other = pid)
            /\ handles[pid] \in {"exited", "killed"}
            => /\ UNCHANGED << active_processes, handles, processes >>
               /\ kill_pc' = "idle"
               /\ kill_reply' # "Failed to kill process"

C22_TerminateIdempotent == [][C22_Step]_vars

\* ---------------------------------------------------------------- cleanup
\* A task that can still run: a worker task, a reminder timer or a typing
\* indicator that is not done.
PendingTask ==
    \/ \E w \in WorkerIds : tasks[w].pc # "none" /\ ~done(tasks[w])
    \/ \E w \in WorkerIds : tasks[w].typing_task = "live"
    \/ \E tid \in ThreadIds : timers[tid].st = "sleeping"

\* C23: once cleanup() has returned, the table of the executor is empty,
\* every process has ended and no task is pending.
C23_ShutdownPostState ==
    cleanup_pc = "done" =>
        /\ active_processes = {}
        /\ \A pid \in DOMAIN handles : ~alive(handles[pid])
        /\ ~PendingTask

\* What holds once cleanup() has returned: every process has ended and no
\* task is pending.
CleanupEndsProcessesAndTasks ==
    cleanup_pc = "done" =>
        /\ \A pid \in DOMAIN handles : ~alive(handles[pid])
        /\ ~PendingTask

\* The steps of a teardown, in their order.
TeardownSteps == << "stop", "worker", "processes", "tasks", "database" >>

\* C24: cleanup() carries out its steps in the order of TeardownSteps; when
\* it has ended, by returning or by raising, every step has been carried out;
\* and the database is not closed while a worker task or a process of the
\* executor's table is live.
C24_OrderedTeardown ==
    /\ Len(teardown) <= Len(TeardownSteps)
    /\ teardown = SubSeq(TeardownSteps, 1, Len(teardown))
    /\ cleanup_pc \in {"done", "raised"} => teardown = TeardownSteps
    /\ database_closed =>
          /\ \A w \in WorkerIds : tasks[w].pc = "none" \/ done(tasks[w])
          /\ \A pid \in active_processes : ~alive(handles[pid])

\* What holds: the steps are taken in order, and the database is closed last,
\* after the worker and the processes have ended.
TeardownInOrder ==
    /\ Len(teardown) <= Len(TeardownSteps)
    /\ teardown = SubSeq(TeardownSteps, 1, Len(teardown))
    /\ cleanup_pc = "done" => teardown = TeardownSteps
    /\ database_closed =>
          /\ \A w \in WorkerIds : tasks[w].pc = "none" \/ done(tasks[w])
          /\ \A pid \in active_processes : ~alive(handles[pid])

\* ------------------------------------------------------------ error_handler
\* C25 as stated: a wrapped handler that raises an Exception has the
\* categorized message sent to the user and returns None; one that succeeds
\* returns its result with nothing sent; only CancelledError propagates.
C25_OnlyCancellationPropagates ==
    outcome.status \in {"returned", "raised"} =>
        /\ call.does = "returns" => outcome.value = "Success" /\ outcome.sent = << >>
        /\ call.does = "raises" /\ call.kind \in ExceptionKinds =>
              /\ outcome.status = "returned"
              /\ outcome.value = "None"
              /\ Len(outcome.sent) = 1
        /\ outcome.status = "raised" => outcome.value = "CancelledError"

\* C25: a wrapped handler never propagates an Exception. On an Exception the
\* wrapper returns None, and the categorized message is sent once when the
\* update has a message or a callback query and the sending succeeds, and
\* not otherwise; a handler that succeeds returns its result with nothing
\* sent; what is raised outside Exception (CancelledError, SystemExit,
\* KeyboardInterrupt) propagates unchanged with nothing sent.
C25_WrapperOutcome ==
    outcome.status \in {"returned", "raised"} =>
        /\ call.does = "returns" =>
              /\ outcome.status = "returned"
              /\ outcome.value = "Success"
              /\ outcome.sent = << >>
        /\ call.does = "raises" /\ call.kind \in ExceptionKinds =>
              /\ outcome.status = "returned"
              /\ outcome.value = "None"
              /\ outcome.category # ""
              /\ IF call.update # "other" /\ call.send_ok
                 THEN Len(outcome.sent) = 1 /\ outcome.sent[1] # ""
                 ELSE outcome.sent = << >>
        /\ call.does = "raises" /\ call.kind \in BaseExceptionKinds =>
              /\ outcome.status = "raised"
              /\ outcome.value = call.kind
              /\ outcome.sent = << >>

\* The sys.exit(0) of a wrapped handler has gone through the wrapper.
C25_Witness ==
    /\ call.kind = "SystemExit"
    /\ outcome.status = "raised"

\* The category the kind of an exception stands for, and failing that the
\* words of its message in any case.
CategoryOfKind(kind, text) ==
    LET has(word) == \E other \in text : lower(other) = word
    IN  CASE kind \in {"NetworkError", "ConnectionError"} -> "network"
          [] kind \in {"TimedOut", "TimeoutError", "asyncio.TimeoutError"} -> "timeout"
          [] kind = "RetryAfter" -> "rate_limit"
          [] kind = "FileNotFoundError" -> "not_found"
          [] kind = "PermissionError" -> "permission"
          [] kind \in {"ValueError", "KeyError", "IndexError", "TypeError"}
                -> "invalid_input"
          [] OTHER ->
                IF has("claude") \/ has("api")
                THEN IF has("timeout") THEN "timeout"
                     ELSE IF has("rate") \/ has("limit") THEN "rate_limit"
                     ELSE "claude_error"
                ELSE "generic"

\* C26: categorize_error gives the category of the exception's kind whatever
\* the message says, inspects the message only when no kind matches, and
\* returns a non-empty message.
C26_KindBeforeMessage ==
    outcome.status = "categorized" =>
        /\ outcome.category = CategoryOfKind(call.kind, call.text)
        /\ outcome.value # ""

\* What holds of categorize_error: every exception gets one of the eight
\* categories and a non-empty message.
CategorizeTotal ==
    outcome.status = "categorized" =>
        /\ outcome.category \in {"network", "timeout", "rate_limit", "not_found",
                                  "permission", "invalid_input", "claude_error",
                                  "generic"}
        /\ outcome.value # ""

\* ------------------------------------------------------------ process rows
\* The process records whose status is running.
RunningRecords(table) == {p \in DOMAIN table : table[p] = "running"}

\* A step: an invocation that starts has a record with status running
\* registered for it; a record is registered only for an invocation that
\* starts; an invocation that ends leaves no record running; at most one
\* record is running.
C27_Step ==
    /\ \A w \in WorkerIds :
          /\ (tasks[w].pc # "invoke" /\ tasks'[w].pc = "invoke") =>
                RunningRecords(processes') \ RunningRecords(processes) # {}
          /\ (tasks[w].pc = "invoke" /\ tasks'[w].pc # "invoke") =>
                RunningRecords(processes') = {}
    /\ RunningRecords(processes') \ RunningRecords(processes) # {} =>
          \E w \in WorkerIds : tasks[w].pc # "invoke" /\ tasks'[w].pc = "invoke"
    /\ Cardinality(RunningRecords(processes')) <= 1

\* C27: a process record with status running is registered before the agent
\* is invoked for a WorkItem and is completed or killed when the invocation
\* ends, so that no record is running after its invocation and at most one
\* record is running at any time.
C27_ProcessRecordLifecycle == [][C27_Step]_vars

\* What holds of the records: one is registered, with status running, only
\* by the worker after an invocation has returned a response with a session
\* id, and no step of the worker changes the status of a record.
RecordsOnlyAfterInvocation ==
    [][/\ \A p \in DOMAIN processes : p \in DOMAIN processes' /\ processes'[p] = processes[p]
       /\ \A p \in DOMAIN processes' \ DOMAIN processes :
             /\ processes'[p] = "running"
             /\ \E w \in WorkerIds :
                   /\ tasks[w].pc = "typing_wait"
                   /\ tasks[w].resp_session = p]_vars

\* ------------------------------------------------------------------ restart
\* C28: after restart_command of an admin resilient_main is still there to
\* start a new run in the same process: it is at the head of its loop, in a
\* run, or between a crash and the next run.
C28_SupervisedRestart ==
    call.kind = "SystemExit" => sup_pc \in {"start", "running", "notify"}

\* What holds: the SystemExit of restart_command ends resilient_main, the
\* process exits with status 0 and no crash is recorded for it.
RestartExitsProcess ==
    [][(call.kind # "SystemExit" /\ call'.kind = "SystemExit") =>
          /\ sup_pc' = "exit_0"
          /\ _crash_times' = _crash_times
          /\ runs' = runs]_vars

\* ---------------------------------------------------------------- one worker
\* C29: at most one claude_worker task is live at any time, and while the
\* application polls for messages and no shutdown is requested exactly one
\* is live to consume the queue.
C29_ExactlyOneWorker ==
    /\ Cardinality(LiveWorkers) <= 1
    /\ (app_state = "polling" /\ ~shutdown_event) => Cardinality(LiveWorkers) = 1

\* --------------------------------------------------------- repeat heartbeat
\* A step of a worker: its wait on the queue times out only after a full
\* heartbeat interval; when it times out after a heartbeat, with heartbeats
\* enabled and no shutdown requested, the next heartbeat is synthesized for
\* the same chat; and when the processing of a heartbeat is over the next
\* wait starts from zero.
C30_Step ==
    \A w \in WorkerIds :
        /\ (tasks[w].pc # "timed_out" /\ tasks'[w].pc = "timed_out") =>
              tasks[w].waited >= heartbeat_interval_seconds
        /\ ( /\ tasks[w].pc = "timed_out" /\ tasks'[w].pc # "timed_out"
             /\ heartbeat_enabled /\ ~shutdown_event
             /\ last_started # None /\ last_started.source = "heartbeat" )
              => /\ last_hb' # None
                 /\ last_hb'.before = last_started
                 /\ last_started'.source = "heartbeat"
                 /\ last_started'.prompt = heartbeat_message
                 /\ last_started'.update = last_started.update
                 /\ tasks'[w].pc \in InProgress \cup {"crashed"}
        /\ ( /\ tasks[w].pc \in InProgress /\ tasks'[w].pc = "waiting"
             /\ tasks[w].request.source = "heartbeat" )
              => tasks'[w].waited = 0

\* C30: heartbeats repeat.  With heartbeats enabled, a worker whose wait
\* times out after a heartbeat synthesizes another heartbeat, each after a
\* further full interval of silence, as often as the silence lasts.
C30_HeartbeatRepeats == [][C30_Step]_vars

\* A heartbeat followed a heartbeat: the one before it was processed, and
\* the queue was silent for another interval.
C30_Witness ==
    /\ last_hb # None
    /\ last_hb.before # None
    /\ last_hb.before.source = "heartbeat"
    /\ \E w \in WorkerIds : tasks[w].pc = "invoke" /\ tasks[w].request.source = "heartbeat"

\* ------------------------------------------------------------- idle period
\* The threads whose first text was accepted less than a heartbeat interval
\* ago: their reminder timer, started with the thread, has slept for less.
YoungThreads ==
    {tid \in ThreadIds : /\ timers[tid].st = "sleeping"
                         /\ timers[tid].slept < heartbeat_interval_seconds
                         /\ timers[tid].slept < REMINDER_DELAY}

\* C31: no heartbeat is synthesized less than the heartbeat interval after
\* an accepted text message, a text that opened a thread and is buffered
\* there included.
C31_Step ==
    \A w \in WorkerIds :
        ( /\ tasks[w].pc = "timed_out"
          /\ tasks'[w].pc \in InProgress \cup {"crashed"} )
            => YoungThreads = {}

C31_IdleRestartsOnInbound == [][C31_Step]_vars

\* What holds: a heartbeat is synthesized only when the worker's own wait on
\* the queue has lasted a full interval, whatever arrived meanwhile.
HeartbeatAfterWorkerWait ==
    [][\A w \in WorkerIds :
          (tasks[w].pc = "waiting" /\ tasks'[w].pc = "timed_out")
              => tasks[w].waited >= heartbeat_interval_seconds /\ claude_queue = << >>]_vars

\* ------------------------------------------------------ one timer per user
\* The reminder timers of a user that are still to run: created, not
\* finished, and with no cancellation under way.
LiveTimers(u) == {tid \in ThreadIds : timers[tid].user = u /\ timers[tid].st = "sleeping"}

\* A step: a timer that runs to its end sends a nudge and sets a flag only
\* for its own ThreadState, which is the open thread of its user.
C32_Step ==
    \A tid \in ThreadIds :
        (timers[tid].st = "sleeping" /\ timers'[tid].st = "done") =>
            /\ \A other \in ThreadIds \ {tid} :
                  /\ reminder_sent'[other] = reminder_sent[other]
                  /\ reminders'[other] = reminders[other]
            /\ (reminders'[tid] # reminders[tid] \/ reminder_sent'[tid] # reminder_sent[tid])
                  => _thread_states[timers[tid].user].tid = tid

\* C32: a user has at most one live reminder timer, which is the timer of
\* the user's open thread: the timer of a thread that was flushed or
\* replaced is cancelled in the step that flushes or replaces it, before the
\* new timer is created, and it sends no nudge and sets no flag afterwards.
C32_OneTimerPerUser ==
    /\ [](\A u \in Users :
            /\ Cardinality(LiveTimers(u)) <= 1
            /\ \A tid \in LiveTimers(u) :
                  _thread_states[u] # None /\ _thread_states[u].tid = tid)
    /\ [][C32_Step]_vars

\* A thread was replaced by a restart: its timer is cancelled, and the timer
\* of the new thread has nudged the user.
C32_Witness ==
    \E u \in Users : \E old, new \in ThreadIds :
        /\ timers[old].user = u /\ timers[old].st = "cancelled"
        /\ timers[new].user = u /\ timers[new].st = "done"
        /\ reminders[old] = 0
        /\ reminders[new] = 1
        /\ _thread_states[u] # None /\ _thread_states[u].tid = new

\* --------------------------------------------- terminate races completion
\* C33: a /kill whose process ends, and is taken out of the table by the
\* executor, during the grace wait still succeeds: after the wait the handle
\* is not in the table, its process record has a terminal status, and the
\* command does not fail.
C33_Step ==
    (kill_pc = "grace" /\ kill_pc' = "idle") =>
        /\ kill_id \notin active_processes'
        /\ kill_reply' # "Failed to kill process"
        /\ kill_id \in DOMAIN processes' => processes'[kill_id] \in {"killed", "completed"}

C33_TerminateRacesCompletion == [][C33_Step]_vars

\* What holds: the handle is out of the table after the wait, whoever took
\* it out, and the command fails exactly if the executor was first.
KillAfterCompletionFails ==
    [][(kill_pc = "grace" /\ kill_pc' = "idle") =>
          /\ kill_id \notin active_processes'
          /\ (kill_reply' = "Failed to kill process") <=> (kill_id \notin active_processes)
          /\ kill_id \notin active_processes => processes' = processes]_vars

\* ------------------------------------------------------- shutdown and queue
\* C34: a worker that stops on a shutdown request has drained the queue:
\* when it leaves its loop, no request that was queued before the shutdown
\* was requested is left in the queue.
C34_Step ==
    \A w \in WorkerIds :
        (tasks[w].pc # "exited" /\ tasks'[w].pc = "exited") => claude_queue' = << >>

C34_DrainBeforeStop == [][C34_Step]_vars

\* What holds: a worker at the head of its loop or in its timeout handler
\* leaves the loop as soon as the event is set, whatever the queue holds.
StopsAtNextCheck ==
    [][\A w \in WorkerIds :
          (shutdown_event /\ tasks[w].pc \in {"top", "timed_out"}
                /\ tasks'[w].pc # tasks[w].pc)
              => tasks'[w].pc \in {"exited", "cancelled"} /\ claude_queue' = claude_queue]_vars

\* C35 as stated: once the shutdown event is set no worker takes a request
\* from the queue and none begins an agent invocation.
C35_NothingBegunAfterEvent ==
    [][shutdown_event =>
          /\ taken' = taken
          /\ \A w \in WorkerIds : tasks[w].pc # "invoke" => tasks'[w].pc # "invoke"]_vars

\* A step with the shutdown event set: a worker at the head of its loop, at
\* the end of an iteration or in its timeout handler leaves the loop, taking
\* nothing and synthesizing no heartbeat; no worker starts a wait on the
\* queue; a request is taken and invoked only by a worker that was waiting
\* on the queue already.
C35_Step ==
    shutdown_event =>
        \A w \in WorkerIds :
            /\ (tasks[w].pc \in {"top", "timed_out"} /\ tasks'[w].pc # tasks[w].pc)
                  => /\ tasks'[w].pc \in {"exited", "cancelled"}
                     /\ taken' = taken
                     /\ last_started' = last_started
            /\ tasks[w].pc # "waiting" => tasks'[w].pc # "waiting"
            /\ (tasks[w].pc # "invoke" /\ tasks'[w].pc = "invoke")
                  => /\ tasks[w].pc = "waiting"
                     /\ Len(taken') = Len(taken) + 1
                     /\ tasks'[w].request.source # "heartbeat"

\* C35: once the shutdown event is set, the worker leaves its loop at its
\* next shutdown check (the head of the loop, the timeout of its wait) and
\* starts no further wait; a worker that was already waiting on the queue
\* when the event was set still takes and invokes a request that is put
\* before its wait ends.
C35_StopsAtNextCheck == [][C35_Step]_vars

\* The event is set, a worker has left its loop at its check, and a request
\* is still in the queue.
C35_Witness ==
    /\ shutdown_event
    /\ claude_queue # << >>
    /\ \E w \in WorkerIds : tasks[w].pc = "exited"
    /\ taken # << >>

\* -------------------------------------------------------- restart from scratch
\* C36: when resilient_main starts a run after a crash, the request queue is
\* empty, no user has a ThreadState, no last request is remembered and the
\* executor's table is empty.
C36_Step ==
    (runs >= 1 /\ runs' = runs + 1) =>
        /\ claude_queue' = << >>
        /\ \A u \in Users : _thread_states'[u] = None
        /\ _last_request' = None
        /\ active_processes' = {}

C36_RestartFromScratch == [][C36_Step]_vars

\* What holds: the start of a run changes none of the queue, the threads, the
\* last request, the executor's table, the crash record and the stores.
RestartKeepsGlobals ==
    [][runs' = runs + 1 =>
          UNCHANGED << claude_queue, _thread_states, _last_request, active_processes,
                       _crash_times, store_vars >>]_vars

\* -------------------------------------------------------------------- /clear
\* C37: a /clear is not undone by an invocation that was in flight when it
\* came: when an invocation that began with a session returns and finds the
\* user's session cleared, the user's session stays cleared, so that the next
\* invocation for the user begins without a session id.
C37_Step ==
    \A w \in WorkerIds :
        ( /\ tasks[w].pc = "typing_wait"
          /\ tasks'[w].pc # "typing_wait"
          /\ tasks[w].session_id # ""
          /\ SessionOf(tasks[w].request.update) = "" )
            => SessionOf(tasks[w].request.update)' = ""

C37_ClearNotUndone == [][C37_Step]_vars

\* What holds: /clear of an authorized user leaves the user without a
\* session, in the store and in context.user_data, at the moment it ends.
ClearEmptiesSession ==
    [][\A u \in Users :
          (SessionOf(u) # "" /\ SessionOf(u)' = "" ) =>
              /\ user_session'[u] = "" /\ user_data'[u] = ""
              /\ tasks' = tasks]_vars

\* ------------------------------------------------------ signal and supervisor
\* C38: once a termination signal has been delivered, in a run, during the
\* handling of a crash or in the pause before the next run, resilient_main
\* starts no further run.
C38_Step == signalled => runs' = runs

C38_SignalEndsSupervisor == [][C38_Step]_vars

\* What holds: a signal in a run whose cleanup returns ends resilient_main.
SignalAndCleanupEnd ==
    [][(sup_pc = "running" /\ sup_pc' # "running" /\ cleanup_pc = "done")
          => signalled /\ sup_pc' = "exit_0"]_vars

\* ------------------------------------------------------------ conservation
\* The texts of a prompt: the prompt cut at its newlines.
RECURSIVE SplitNL(_, _)
SplitNL(prompt, current) ==
    IF prompt = << >> THEN << current >>
    ELSE IF Head(prompt) = "\n" THEN << current >> \o SplitNL(Tail(prompt), << >>)
    ELSE SplitNL(Tail(prompt), Append(current, Head(prompt)))

\* The texts of all prompts queued for a user, prompt after prompt.
RECURSIVE QueuedTexts(_)
QueuedTexts(prompts) ==
    IF prompts = << >> THEN << >>
    ELSE SplitNL(Head(prompts), << >>) \o QueuedTexts(Tail(prompts))

\* The buffer of the user's open thread.
Buffer(u) == IF _thread_states[u] = None THEN << >> ELSE _thread_states[u].messages

\* The accepted texts of a user in the order of their arrival.
AcceptedTexts(u) == [k \in DOMAIN arrived[u] |-> arrived[u][k].text]

\* The texts of one prompt belong to one thread: a prompt of several texts
\* begins with a start-marked text and has no marked text inside.
OneThread(texts) ==
    Len(texts) > 1
    => /\ StartMarked(texts[1])
       /\ \A k \in 2..(Len(texts) - 1) : NoMarker(texts[k])

\* C39: message conservation.  For every user the accepted texts are, each
\* exactly once and in arrival order, the texts of the prompts queued for the
\* user followed by the texts of the user's thread buffer; a prompt holds the
\* texts of one thread only, and the buffer is one unfinished thread.
C39_MessageConservation ==
    \A u \in Users :
        /\ QueuedTexts(enq_log[u]) \o Buffer(u) = AcceptedTexts(u)
        /\ \A n \in DOMAIN enq_log[u] : OneThread(SplitNL(enq_log[u][n], << >>))
        /\ Buffer(u) # << >>
           => /\ StartMarked(Buffer(u)[1])
              /\ \A k \in 2..Len(Buffer(u)) : NoMarker(Buffer(u)[k])
        /\ _thread_states[u] # None => Buffer(u) # << >>

\* A user's texts are in two prompts and in the buffer: one text went out at
\* once, one was flushed by the restart of its thread, one is buffered.
C39_Witness ==
    \E u \in Users :
        /\ Len(arrived[u]) = 3
        /\ Len(enq_log[u]) = 2
        /\ Len(Buffer(u)) = 1

\* ------------------------------------------------------------ crash record
\* One timestamp, the time of the crash, was appended to the record, the
\* oldest entry of a full record making room for it.
Appended ==
    /\ Last(_crash_times') = now'
    /\ IF Len(_crash_times) < CRASH_TIMES_MAXLEN
       THEN SubSeq(_crash_times', 1, Len(_crash_times') - 1) = _crash_times
       ELSE SubSeq(_crash_times', 1, Len(_crash_times') - 1) = Tail(_crash_times)

\* A step of the supervisor as far as the crash record goes: when main() ends
\* without a failure resilient_main ends, with the record and the number of
\* runs as they were; once it has ended no run is started; the record changes
\* only when main() fails, by one appended timestamp; it holds at most 10.
C40_Step ==
    /\ (sup_pc = "running" /\ sup_pc' = "exit_0")
          => _crash_times' = _crash_times /\ runs' = runs
    /\ sup_pc = "exit_0" => (sup_pc' = "exit_0" /\ runs' = runs)
    /\ _crash_times' # _crash_times
          => /\ sup_pc = "running" /\ sup_pc' \in {"notify", "exit_1"}
             /\ Appended
    /\ Len(_crash_times') <= 10

\* C40: a run of main() that ends without an unhandled failure (the signal
\* was handled, or KeyboardInterrupt) is the last run and leaves the crash
\* record alone; a timestamp is appended to the crash record only when an
\* exception escapes main(); the record never holds more than 10 timestamps.
C40_CrashRecordFrame == [][C40_Step]_vars

\* After eleven crashes, the oldest of which the full record has dropped, the
\* twelfth run ended without a failure.
C40_Witness ==
    /\ sup_pc = "exit_0"
    /\ runs = 12
    /\ Len(_crash_times) = 10
    /\ _crash_times[1] > 60

====
